---- MODULE Spec2Model ----
(***************************************************************************)
(* ado-sync: the synchronization core (push, pull, combined sync) and the  *)
(* remote client's handling of 429 responses.                              *)
(*                                                                         *)
(* The Document is a forest of work items; the remote service is a table   *)
(* of records keyed by remote id.  Every await of the code is one step of  *)
(* the model, so the remote service can change between two requests of a   *)
(* run (RemoteEdit, RemoteDelete) and any request can fail in transport.   *)
(***************************************************************************)
EXTENDS Integers, Sequences, FiniteSets, TLC

\* ------------------------------------------------------------------ bounds
MaxItems == 2      \* work items in the Document
MaxEdits == 1      \* edits/deletions made by other users of the remote service
MaxFaults == 1     \* requests that fail in transport during a run

\* --------------------------------------------------------------- constants
NoId == 0          \* _ado.workItemId: null, or no _ado at all
NoRev == 0         \* _ado.rev: null

Items == 1 .. MaxItems
RemoteIds == 1 .. (2 * MaxItems)

\* Strings are sequences of one-character strings; an absent (undefined)
\* field is the marker Undef, which no string of the model equals.
Undef == <<"#undef">>
TitleA == <<"A">>
TitleB == <<"B">>
TitleApad == <<" ", "A">>
StateNew == <<"N">>
Titles == {TitleA, TitleB}
LocalTitles == {TitleA, TitleB}
LocalStates == {Undef, StateNew}

\* config.defaults of the resolved configuration (state only; the other
\* defaulted fields behave alike)
ConfigDefaults == [state |-> StateNew]

\* The local ids of the Document's items and the filter patterns tried.
Digit == <<"1", "2", "3", "4", "5", "6", "7", "8", "9">>
LocalIdOf(i) == <<(IF i % 2 = 1 THEN "p" ELSE "t"), Digit[i]>>
Filters == {<<"*">>, <<"p", "?">>}

VARIABLES
  doc,        \* the caller's Document: item -> [parent, title, state, adoId, rev]
  remote,     \* the remote service: id -> [exists, rev, title, state, parent]
  nextId,     \* the id the remote service gives to the next created record
  opts,       \* PushOptions: [dryRun, force, createOnly, updateOnly, filter]
  strategy,   \* ConflictStrategy of a combined sync, "none" for a plain push
  config,     \* config.sync: [includeComments, includePRs]
  pc,         \* where the run is: idle, pull, decide, create, link, update, refetch, done, crashed
  flat,       \* the WorkItemWithParent copies made by flattenHierarchy
  queue,      \* filteredItems (push) or itemsWithAdoId (pull), a sequence of items
  idx,        \* position of the loop in queue
  resultId,   \* result.workItemId of the action being executed
  results,    \* the SyncResult list being built by push
  pullResults,\* pullResults of a combined sync
  adoMap,     \* pull: the batch response, id -> record (exists = FALSE: absent)
  reqLog,     \* every request sent to the remote service, in order
  decided,    \* every decision of determineSyncAction with what it saw
  refetched,  \* item -> the [id, rev] returned by its post-write re-fetch
  edits,      \* edits made by other users so far
  faults,     \* transport failures so far
  quiet,      \* no other user has changed the remote service since the run started
  now,          \* Date.now(), in ms
  requestCount, \* RateLimiter.requestCount
  windowStart,  \* RateLimiter.windowStart
  cpc,          \* the client's current request: idle, inflight, ok, failed
  sends,        \* how many times the current request has been sent
  waits,        \* the Retry-After headers handled for the current request and the sleeps
  calls,        \* requests made of the client so far
  n429,         \* 429 responses given by the service so far
  maxRequestsPerMinute, \* RateLimiter.maxRequestsPerMinute
  windowMs,     \* RateLimiter.windowMs
  lastThrottle, \* what the last direct call of RateLimiter.throttle found and did
  clientCache,  \* the module's clientCache: key -> AdoClient instance, 0 when absent
  created,      \* AdoClient instances constructed so far
  got,          \* what getAdoClient has returned since the cache was last cleared
  itemAdo,      \* refresh: item._ado of one entry, each field the refresh that stored it
  metadata,     \* refresh: the local metadata object being built
  rpc,          \* refresh: idle, comments, prs (awaiting that fetch), stored, thrown
  epoch,        \* refresh: number of refreshes begun
  rkind,        \* refresh: [pull, includeComments, includePRs] of the last refresh begun
  bIds,         \* getWorkItems: the ids argument
  bGone,        \* getWorkItems: ids the service has no record of
  bPc,          \* getWorkItems: idle, post, done, thrown
  bBatches,     \* getWorkItems: batches
  bNext,        \* getWorkItems: position of the loop in batches
  bLog,         \* getWorkItems: the batched requests sent, with their responses
  bResults,     \* getWorkItems: results
  cTotal,       \* getAllComments: how many comments the work item has (numbered 1..cTotal)
  cPc,          \* getAllComments: idle, get (awaiting a page), done, thrown
  continuationToken, \* getAllComments: continuationToken (an offset, NoToken when undefined)
  comments,     \* getAllComments: comments
  cRequests,    \* getAllComments: page requests sent
  iremote,      \* import: the remote records: [kids, kind, failing, heavy]
  iopts,        \* import: ImportOptions [maxDepth, filterTag, filterType, includeComments]
  ipc,          \* import: idle, running, done, thrown
  stack,        \* import: the active calls of fetchWorkItemTree, innermost last
  iresults,     \* import: results
  fetchLog,     \* import: every getWorkItem call, with the depth of the caller
  tree,         \* import: the tree importFromAdo got, NoItem before
  hierarchyType,\* import: document.hierarchyType, "" before
  command,      \* command: the command run and its options
  yamlDoc,      \* command: what the file parses to
  cmdPc,        \* command: position of pushCommand / syncCommand
  validation,   \* command: the result of validateDocument
  remoteCalls,  \* command: requests sent to the service
  fileWrites,   \* command: writeYamlFile calls on the file
  backups,      \* command: backup copies made
  dLocal,       \* diff: the local work item given to diffWorkItem
  dAdo,         \* diff: the remote record given to diffWorkItem
  diff,         \* diff: the WorkItemDiff returned, NoDiff before
  fParent,      \* flatten: the Document parent of each node of the Document
  flattened,    \* flatten: the array flattenHierarchy returned
  fPc,          \* flatten: "idle" before the call, "done" after
  issued,       \* client: the times at which requests were issued, oldest first
  reruns,       \* rerun: how often pushCommand was run again on the written file
  prevRun       \* rerun: what the run before returned and the edits it had seen

pushVars == <<doc, remote, nextId, opts, strategy, config, pc, flat, queue,
              idx, resultId,
              results, pullResults, adoMap, reqLog, decided, refetched, edits,
              faults, quiet>>

clientVars == <<now, requestCount, windowStart, cpc, sends, waits, calls, n429,
                maxRequestsPerMinute, windowMs, lastThrottle, issued>>

cacheVars == <<clientCache, created, got>>

refreshVars == <<itemAdo, metadata, rpc, epoch, rkind>>

batchVars == <<bIds, bGone, bPc, bBatches, bNext, bLog, bResults>>

commentVars == <<cTotal, cPc, continuationToken, comments, cRequests>>

importVars == <<iremote, iopts, ipc, stack, iresults, fetchLog, tree, hierarchyType>>

commandVars == <<command, yamlDoc, cmdPc, validation, remoteCalls, fileWrites, backups>>

diffVars == <<dLocal, dAdo, diff>>

flattenVars == <<fParent, flattened, fPc>>

rerunVars == <<reruns, prevRun>>

restOfPush == <<clientVars, cacheVars, refreshVars, batchVars, commentVars, importVars,
    commandVars, diffVars, flattenVars, rerunVars>>
restOfClient == <<pushVars, cacheVars, refreshVars, batchVars, commentVars, importVars,
    commandVars, diffVars, flattenVars, rerunVars>>
restOfCache == <<pushVars, clientVars, refreshVars, batchVars, commentVars, importVars,
    commandVars, diffVars, flattenVars, rerunVars>>
restOfRefresh == <<pushVars, clientVars, cacheVars, batchVars, commentVars, importVars,
    commandVars, diffVars, flattenVars, rerunVars>>
restOfBatch == <<pushVars, clientVars, cacheVars, refreshVars, commentVars, importVars,
    commandVars, diffVars, flattenVars, rerunVars>>
restOfComments == <<pushVars, clientVars, cacheVars, refreshVars, batchVars, importVars,
    commandVars, diffVars, flattenVars, rerunVars>>
restOfCommand == <<pushVars, clientVars, cacheVars, refreshVars, batchVars, commentVars,
    importVars, diffVars, flattenVars, rerunVars>>
restOfDiff == <<pushVars, clientVars, cacheVars, refreshVars, batchVars, commentVars,
    importVars, commandVars, flattenVars, rerunVars>>
restOfFlatten == <<pushVars, clientVars, cacheVars, refreshVars, batchVars, commentVars,
    importVars, commandVars, diffVars, rerunVars>>
restOfImport == <<pushVars, clientVars, cacheVars, refreshVars, batchVars, commentVars,
    commandVars, diffVars, flattenVars, rerunVars>>

vars == <<pushVars, clientVars, cacheVars, refreshVars, batchVars, commentVars,
          importVars, commandVars, diffVars, flattenVars, rerunVars>>

\* ------------------------------------------------------------ pure helpers

RECURSIVE TrimLeft(_)
TrimLeft(s) == IF s # <<>> /\ Head(s) = " " THEN TrimLeft(Tail(s)) ELSE s

RECURSIVE TrimRight(_)
TrimRight(s) ==
  IF s # <<>> /\ s[Len(s)] = " " THEN TrimRight(SubSeq(s, 1, Len(s) - 1)) ELSE s

Trim(s) == TrimRight(TrimLeft(s))

\* isEqual: undefined equals only undefined; strings compare trimmed
isEqual(a, b) ==
  IF a = Undef THEN b = Undef
  ELSE IF b = Undef THEN FALSE
  ELSE Trim(a) = Trim(b)

\* the change list of diffWorkItem over the modelled compare fields
Changes(it, rec) ==
  {f \in {"title", "state"} :
     ~isEqual(IF f = "title" THEN it.title ELSE it.state,
              IF f = "title" THEN rec.title ELSE rec.state)}

hasLocalChanges(it, rec) == Changes(it, rec) # {}

\* glob match of a whole id against a pattern: * any run, ? one character
RECURSIVE Glob(_, _)
Glob(s, p) ==
  IF p = <<>> THEN s = <<>>
  ELSE IF Head(p) = "*"
    THEN Glob(s, Tail(p)) \/ (s # <<>> /\ Glob(Tail(s), p))
  ELSE s # <<>> /\ (Head(p) = "?" \/ Head(p) = Head(s)) /\ Glob(Tail(s), Tail(p))

MatchesAll(id, pattern) == TRUE
matchesFilter(id, pattern) == Glob(id, pattern)

\* the items whose Document parent is p (0: the roots), in document order
RECURSIVE SortedSeq(_)
SortedSeq(S) ==
  IF S = {} THEN <<>>
  ELSE LET m == CHOOSE x \in S : \A y \in S : x <= y
       IN <<m>> \o SortedSeq(S \ {m})

ChildrenOf(d, p) == SortedSeq({i \in DOMAIN d : d[i].parent = p})

RECURSIVE traverse(_, _)
traverse(d, items) ==
  IF items = <<>> THEN <<>>
  ELSE <<Head(items)>> \o traverse(d, ChildrenOf(d, Head(items)))
                       \o traverse(d, Tail(items))

\* flattenHierarchy: the pre-order sequence; each entry is a copy of its item
flattenHierarchy(d) == traverse(d, ChildrenOf(d, 0))

FlatCopies(d) == [i \in DOMAIN d |-> d[i]]

\* ------------------------------------------------------------ remote service

EmptyRec == [exists |-> FALSE, rev |-> NoRev, title |-> Undef, state |-> Undef,
             parent |-> NoId]


\* GET of one record: found, or 404
FetchFound(rec) == rec.exists

\* PATCH with the fields of an update, preceded by {op: test, path: /rev}
\* when a revision is expected: the service applies it only to an existing
\* record whose revision passes the test
UpdateAccepted(rec, exp) == rec.exists /\ (exp = NoRev \/ rec.rev = exp)

\* the record after an accepted update: undefined fields are not sent
UpdatedRec(rec, it) ==
  [rec EXCEPT !.title = IF it.title = Undef THEN @ ELSE it.title,
              !.state = IF it.state = Undef THEN @ ELSE it.state,
              !.rev = @ + 1]

\* --------------------------------------------------------------- sync engine

\* applyDefaults: unset fields take the configured default
applyDefaults(it) ==
  [it EXCEPT !.state = IF @ = Undef THEN ConfigDefaults.state ELSE @]

\* the record a create request makes of the defaulted item
CreatedRec(it) ==
  [exists |-> TRUE, rev |-> 1, title |-> applyDefaults(it).title,
   state |-> applyDefaults(it).state, parent |-> NoId]

\* determineSyncAction needs the remote record unless it returns before the fetch
NeedsFetch(it, o) == it.adoId # NoId /\ ~o.createOnly

\* the conflict test of determineSyncAction
IsConflictLoose(it, o, rec) == it.rev # NoRev /\ rec.rev > it.rev
IsConflictLate(it, o, rec) == ~o.force /\ it.rev # NoRev /\ rec.rev > it.rev + 1
IsConflict(it, o, rec) == ~o.force /\ it.rev # NoRev /\ rec.rev > it.rev

\* the action taken when the decision-step fetch throws
OnFetchFailedRecreate(o) == "create"
OnFetchFailed(o) == IF o.updateOnly THEN "skip" ELSE "create"

\* determineSyncAction; fetchOk and rec are the outcome of its getWorkItem
determineSyncAction(it, o, fetchOk, rec) ==
  IF it.adoId = NoId THEN (IF o.updateOnly THEN "skip" ELSE "create")
  ELSE IF o.createOnly THEN "skip"
  ELSE IF ~fetchOk THEN OnFetchFailed(o)
  ELSE IF IsConflict(it, o, rec) THEN "conflict"
  ELSE IF hasLocalChanges(it, rec) THEN "update"
  ELSE "skip"

\* pushWorkItems: the dry-run branch replaces the execution
NeverDryRun(o) == FALSE
IsDryRun(o) == o.dryRun

\* executeAction, update: const expectedRev = item._ado?.rev ?? undefined
ExpectedRev(it) == it.rev

\* executeAction, create: item.parent?._ado?.workItemId, read from the parent's copy
ParentAdoIdOfDoc(fl, d, it) == IF it.parent = 0 THEN NoId ELSE d[it.parent].adoId
ParentAdoId(fl, d, it) == IF it.parent = 0 THEN NoId ELSE fl[it.parent].adoId

\* the for loop: the next position, after a processed item and after a caught error
NextPc(i, q) == IF i + 1 > Len(q) THEN "done" ELSE "decide"
CatchAborts(i, q) == "done"
CatchPc(i, q) == NextPc(i, q)

Result(i, act, ok, id) == [item |-> i, action |-> act, success |-> ok, workItemId |-> id]

Req(op, i, id, exp, par, ok) ==
  [op |-> op, item |-> i, id |-> id, exp |-> exp, par |-> par, ok |-> ok]

\* the outcomes of one request: what the service answers, or a transport failure
Outcomes(accepted) ==
  {IF accepted THEN "ok" ELSE "rejected"}
    \cup (IF faults < MaxFaults THEN {"fault"} ELSE {})

Fault(outcome) == IF outcome = "fault" THEN faults + 1 ELSE faults

\* syncWorkItems: pushWorkItems is called when the awaited pullWorkItems has
\* returned
PushDuringPull == pc \in {"pull", "pulled"}
PushAfterPull == pc = "pulled"

\* const items = flattenHierarchy(doc): the copies the push works on, where
\* fl are the copies of an earlier flattenHierarchy
PulledCopies(fl, d) == fl
PushCopies(fl, d) == FlatCopies(d)

\* pushWorkItems up to the loop: flatten, filter
PushStart ==
  /\ \/ pc = "idle" /\ strategy = "none"
     \/ PushAfterPull
  /\ LET q == SelectSeq(flattenHierarchy(doc),
                        LAMBDA i : matchesFilter(LocalIdOf(i), opts.filter))
     IN /\ queue' = q
        /\ pc' = IF q = <<>> THEN "done" ELSE "decide"
  /\ flat' = PushCopies(flat, doc)
  /\ idx' = 1
  /\ results' = <<>>
  /\ quiet' = (pc = "idle" \/ quiet)
  /\ UNCHANGED restOfPush
  /\ UNCHANGED <<doc, remote, nextId, opts, strategy, config, resultId, pullResults, adoMap,
                 reqLog, decided, refetched, edits, faults>>

\* one iteration up to its first await after the decision: determineSyncAction
\* (with its fetch), the dry-run branch, and executeAction for skip and conflict
Decide ==
  /\ pc = "decide"
  /\ LET i == queue[idx]
         it == flat[i]
         fetch == NeedsFetch(it, opts)
     IN \E outcome \in (IF fetch THEN Outcomes(FetchFound(remote[it.adoId]))
                                 ELSE {"nofetch"}) :
          LET rec == IF fetch THEN remote[it.adoId] ELSE EmptyRec
              act == determineSyncAction(it, opts, outcome = "ok", rec)
          IN /\ faults' = Fault(outcome)
             /\ reqLog' = IF fetch
                            THEN Append(reqLog, Req("get", i, it.adoId, NoRev, NoId,
                                                    outcome = "ok"))
                            ELSE reqLog
             /\ decided' = Append(decided,
                              [item |-> i, action |-> act, fetched |-> outcome = "ok",
                               localRev |-> it.rev,
                               adoRev |-> IF outcome = "ok" THEN rec.rev ELSE NoRev,
                               changed |-> outcome = "ok" /\ hasLocalChanges(it, rec)])
             /\ IF IsDryRun(opts)
                  THEN /\ results' = Append(results, Result(i, act, TRUE, NoId))
                       /\ pc' = NextPc(idx, queue)
                       /\ idx' = idx + 1
                ELSE IF act \in {"skip", "conflict"}
                  THEN /\ results' = Append(results,
                                        Result(i, act, act = "skip", it.adoId))
                       /\ pc' = NextPc(idx, queue)
                       /\ idx' = idx + 1
                ELSE /\ results' = results
                     /\ pc' = act
                     /\ idx' = idx
  /\ UNCHANGED restOfPush
  /\ UNCHANGED <<doc, remote, nextId, opts, strategy, config, flat, queue, resultId,
                 pullResults, adoMap, refetched, edits, quiet>>

\* executeAction, create: createWorkItem
ExecuteCreate ==
  /\ pc = "create"
  /\ nextId \in RemoteIds
  /\ LET i == queue[idx]
         it == flat[i]
         par == ParentAdoId(flat, doc, it)
     IN \E outcome \in Outcomes(TRUE) :
          /\ faults' = Fault(outcome)
          /\ reqLog' = Append(reqLog, Req("create", i, IF outcome = "ok" THEN nextId ELSE NoId,
                                          NoRev, NoId, outcome = "ok"))
          /\ IF outcome = "ok"
               THEN /\ remote' = [remote EXCEPT ![nextId] = CreatedRec(it)]
                    /\ nextId' = nextId + 1
                    /\ resultId' = nextId
                    /\ IF par # NoId
                         THEN /\ pc' = "link"
                              /\ results' = results
                         ELSE /\ pc' = "refetch"
                              /\ results' = Append(results, Result(i, "create", TRUE, nextId))
                    /\ idx' = idx
               ELSE /\ results' = Append(results, Result(i, "create", FALSE, NoId))
                    /\ pc' = CatchPc(idx, queue)
                    /\ idx' = idx + 1
                    /\ UNCHANGED <<remote, nextId, resultId>>
  /\ UNCHANGED restOfPush
  /\ UNCHANGED <<doc, opts, strategy, config, flat, queue, pullResults, adoMap, decided,
                 refetched, edits, quiet>>

\* executeAction, create: addParentLink(response.id, item.parent._ado.workItemId)
Link ==
  /\ pc = "link"
  /\ LET i == queue[idx]
         it == flat[i]
         par == ParentAdoId(flat, doc, it)
     IN \E outcome \in Outcomes(remote[resultId].exists /\ remote[par].exists) :
          /\ faults' = Fault(outcome)
          /\ reqLog' = Append(reqLog, Req("link", i, resultId, NoRev, par, outcome = "ok"))
          /\ IF outcome = "ok"
               THEN /\ remote' = [remote EXCEPT ![resultId].parent = par,
                                                ![resultId].rev = @ + 1]
                    /\ results' = Append(results, Result(i, "create", TRUE, resultId))
                    /\ pc' = "refetch"
                    /\ idx' = idx
               ELSE /\ results' = Append(results, Result(i, "create", FALSE, NoId))
                    /\ pc' = CatchPc(idx, queue)
                    /\ idx' = idx + 1
                    /\ remote' = remote
  /\ UNCHANGED restOfPush
  /\ UNCHANGED <<doc, nextId, opts, strategy, config, flat, queue, resultId, pullResults, adoMap,
                 decided, refetched, edits, quiet>>

\* executeAction, update: updateWorkItem(adoId, item, expectedRev)
ExecuteUpdate ==
  /\ pc = "update"
  /\ LET i == queue[idx]
         it == flat[i]
         exp == ExpectedRev(it)
     IN \E outcome \in Outcomes(UpdateAccepted(remote[it.adoId], exp)) :
          /\ faults' = Fault(outcome)
          /\ reqLog' = Append(reqLog, Req("update", i, it.adoId, exp, NoId, outcome = "ok"))
          /\ IF outcome = "ok"
               THEN /\ remote' = [remote EXCEPT ![it.adoId] = UpdatedRec(@, it)]
                    /\ results' = Append(results, Result(i, "update", TRUE, it.adoId))
                    /\ resultId' = it.adoId
                    /\ pc' = "refetch"
                    /\ idx' = idx
               ELSE /\ results' = Append(results, Result(i, "update", FALSE, NoId))
                    /\ pc' = CatchPc(idx, queue)
                    /\ idx' = idx + 1
                    /\ UNCHANGED <<remote, resultId>>
  /\ UNCHANGED restOfPush
  /\ UNCHANGED <<doc, nextId, opts, strategy, config, flat, queue, pullResults, adoMap, decided,
                 refetched, edits, quiet>>

\* extractAdoMetadata: the metadata made of a fetched record
extractAdoMetadata(id, rec) == [adoId |-> id, rev |-> rec.rev]

\* updateItemMetadata(item, metadata): item is the entry of the flattened list
IncrementRev(fl, i, md) == [fl EXCEPT ![i].adoId = md.adoId, ![i].rev = @ + 1]
updateItemMetadata(fl, i, md) == [fl EXCEPT ![i].adoId = md.adoId, ![i].rev = md.rev]

\* pushWorkItems: the re-fetch after a successful create or update
Refetch ==
  /\ pc = "refetch"
  /\ LET i == queue[idx]
         act == results[Len(results)].action
     IN \E outcome \in Outcomes(FetchFound(remote[resultId])) :
          /\ faults' = Fault(outcome)
          /\ reqLog' = Append(reqLog, Req("get", i, resultId, NoRev, NoId, outcome = "ok"))
          /\ IF outcome = "ok"
               THEN /\ flat' = updateItemMetadata(flat, i,
                                  extractAdoMetadata(resultId, remote[resultId]))
                    /\ refetched' = [refetched EXCEPT ![i] =
                                       extractAdoMetadata(resultId, remote[resultId])]
                    /\ results' = results
                    /\ pc' = NextPc(idx, queue)
               ELSE /\ results' = Append(results, Result(i, act, FALSE, NoId))
                    /\ pc' = CatchPc(idx, queue)
                    /\ UNCHANGED <<flat, refetched>>
          /\ idx' = idx + 1
  /\ UNCHANGED restOfPush
  /\ UNCHANGED <<doc, remote, nextId, opts, strategy, config, queue, resultId, pullResults,
                 adoMap, decided, edits, quiet>>

\* --------------------------------------------------------------------- pull

\* pullWorkItems up to the loop: flatten, keep the linked items, batch-fetch
\* them (the batch response leaves out the ids the service does not have);
\* a failed batch request throws out of pullWorkItems and syncWorkItems
PullStart ==
  /\ pc = "idle"
  /\ strategy # "none"
  /\ LET q == SelectSeq(flattenHierarchy(doc), LAMBDA i : doc[i].adoId # NoId)
         ids == {doc[q[k]].adoId : k \in 1 .. Len(q)}
     IN /\ queue' = q
        /\ IF q = <<>>
             THEN /\ pc' = "pulled"
                  /\ UNCHANGED <<adoMap, reqLog, faults>>
             ELSE \E outcome \in Outcomes(TRUE) :
                    /\ faults' = Fault(outcome)
                    /\ reqLog' = Append(reqLog, Req("batch", 0, NoId, NoRev, NoId,
                                                    outcome = "ok"))
                    /\ adoMap' = IF outcome = "ok"
                                   THEN [id \in RemoteIds |->
                                           IF id \in ids /\ remote[id].exists
                                             THEN remote[id] ELSE EmptyRec]
                                   ELSE adoMap
                    /\ pc' = IF outcome = "ok" THEN "pull" ELSE "crashed"
  /\ flat' = FlatCopies(doc)
  /\ idx' = 1
  /\ pullResults' = <<>>
  /\ quiet' = TRUE
  /\ UNCHANGED restOfPush
  /\ UNCHANGED <<doc, remote, nextId, opts, strategy, config, resultId, results,
                 decided, refetched, edits>>

\* a result of pull; error is "none" for a success
PullResult(i, act, ok, id, err) ==
  [item |-> i, action |-> act, success |-> ok, workItemId |-> id, error |-> err]

\* the result pushed when adoMap.get(adoId) is undefined
AbsentAsPulled(i, id) == PullResult(i, "update", TRUE, id, "none")
AbsentResult(i, id) == PullResult(i, "skip", FALSE, id, "Work item not found in ADO")

\* the pull loop: the next position, after a processed item and after a
\* caught error of the comment or pull-request fetch
PullNextPc(i, q) == IF i + 1 > Len(q) THEN "pulled" ELSE "pull"
PullCatchAborts(i, q) == "pulled"
PullCatchPc(i, q) == PullNextPc(i, q)

\* the Document after an item was pulled: pullWorkItems assigns nothing of
\* the fetched record to the items of the Document
TakeRemoteTitle(d, i, rec) == [d EXCEPT ![i].title = rec.title]
DocumentAfterPull(d, i, rec) == d

\* one iteration of the pull loop: the metadata of the fetched record, the
\* comments and pull requests when configured (either request can throw),
\* then updateItemMetadata on the entry of the flattened list
PullItem ==
  /\ pc = "pull"
  /\ LET i == queue[idx]
         id == flat[i].adoId
         enrich == config.includeComments \/ config.includePRs
     IN IF ~adoMap[id].exists
          THEN /\ pullResults' = Append(pullResults, AbsentResult(i, id))
               /\ pc' = PullNextPc(idx, queue)
               /\ UNCHANGED <<doc, flat, faults, reqLog>>
          ELSE \E outcome \in (IF enrich THEN Outcomes(TRUE) ELSE {"ok"}) :
                 /\ faults' = Fault(outcome)
                 /\ reqLog' = IF enrich
                                THEN Append(reqLog, Req("enrich", i, id, NoRev, NoId,
                                                        outcome = "ok"))
                                ELSE reqLog
                 /\ IF outcome = "ok"
                      THEN /\ flat' = updateItemMetadata(flat, i,
                                         extractAdoMetadata(id, adoMap[id]))
                           /\ doc' = DocumentAfterPull(doc, i, adoMap[id])
                           /\ pullResults' = Append(pullResults,
                                         PullResult(i, "update", TRUE, id, "none"))
                           /\ pc' = PullNextPc(idx, queue)
                      ELSE /\ flat' = flat
                           /\ doc' = doc
                           /\ pullResults' = Append(pullResults,
                                         PullResult(i, "skip", FALSE, id, "thrown"))
                           /\ pc' = PullCatchPc(idx, queue)
  /\ idx' = idx + 1
  /\ UNCHANGED restOfPush
  /\ UNCHANGED <<remote, nextId, opts, strategy, config, queue, resultId, results,
                 adoMap, decided, refetched, edits, quiet>>

\* ------------------------------------------------- other users of the service

\* another user edits a record: its revision grows, its title may change
RemoteEdit ==
  /\ edits < MaxEdits
  /\ pc # "done"
  /\ \E id \in RemoteIds, t \in Titles :
       /\ remote[id].exists
       /\ remote' = [remote EXCEPT ![id].rev = @ + 1, ![id].title = t]
  /\ edits' = edits + 1
  /\ quiet' = FALSE
  /\ UNCHANGED restOfPush
  /\ UNCHANGED <<doc, nextId, opts, strategy, config, pc, flat, queue, idx, resultId, results,
                 pullResults, adoMap, reqLog, decided, refetched, faults>>

\* another user deletes a record
RemoteDelete ==
  /\ edits < MaxEdits
  /\ pc # "done"
  /\ \E id \in RemoteIds :
       /\ remote[id].exists
       /\ remote' = [remote EXCEPT ![id].exists = FALSE]
  /\ edits' = edits + 1
  /\ quiet' = FALSE
  /\ UNCHANGED restOfPush
  /\ UNCHANGED <<doc, nextId, opts, strategy, config, pc, flat, queue, idx, resultId, results,
                 pullResults, adoMap, reqLog, decided, refetched, faults>>

\* ------------------------------------------------------------ remote client

MaxRequestsPerMinute == 100   \* RateLimiter: options.maxRequestsPerMinute ?? 100
WindowMs == 60000             \* RateLimiter: options.windowMs ?? 60000
DefaultRetryAfter == 60       \* handleError: parseInt(retry-after) || 60

MaxCalls == 3      \* requests made of the client
Max429 == 2        \* 429 responses the service gives
MaxTicks == 2      \* times the clock advances between requests
TickMs == 30000    \* by how much it advances

\* the retry-after header of a 429 response: absent, or a number of seconds
NoHeader == -1
RetryAfterHeaders == {NoHeader, 0, 5, 120}

\* const retryAfter = parseInt(headers['retry-after'], 10) || 60
RetryAfterSeconds(h) == IF h = NoHeader \/ h = 0 THEN DefaultRetryAfter ELSE h

\* RateLimiter.throttle: this.requestCount >= this.maxRequestsPerMinute * 0.8
ThresholdPassed(count) == count * 10 > maxRequestsPerMinute * 8
ThresholdReached(count) == count * 10 >= maxRequestsPerMinute * 8

\* RateLimiter.throttle at time t: [requestCount, windowStart, now] afterwards,
\* and whether it slept
throttle(count, start, t) ==
  LET c1 == IF t - start >= windowMs THEN 0 ELSE count
      s1 == IF t - start >= windowMs THEN t ELSE start
  IN IF ThresholdReached(c1)
       THEN [requestCount |-> 1, windowStart |-> t + (windowMs - (t - s1)),
             now |-> t + (windowMs - (t - s1)), slept |-> TRUE]
       ELSE [requestCount |-> c1 + 1, windowStart |-> s1, now |-> t, slept |-> FALSE]

\* RateLimiter.handleRetryAfter: sleep, then reset the counter and the window
handleRetryAfter(seconds, t) ==
  [requestCount |-> 0, windowStart |-> t + seconds * 1000, now |-> t + seconds * 1000]

\* handleError: whether the failed request is sent again
ShouldReplay(status, sent) == status = 429

\* no direct call of throttle yet
NoThrottle ==
  [entered |-> FALSE, count |-> 0, start |-> 0, at |-> 0, slept |-> FALSE, woke |-> 0]

InitLimiterState ==
  /\ now = 0
  /\ requestCount = 0
  /\ windowStart = 0
  /\ cpc = "idle"
  /\ sends = 0
  /\ waits = <<>>
  /\ calls = 0
  /\ n429 = 0
  /\ lastThrottle = NoThrottle
  /\ issued = <<>>

\* AdoClient: this.rateLimiter = new RateLimiter()
InitClientVars ==
  /\ InitLimiterState
  /\ maxRequestsPerMinute = MaxRequestsPerMinute
  /\ windowMs = WindowMs

\* AdoClient.get/post/patch/delete: the request interceptor throttles, the
\* request is sent
ClientCall ==
  /\ cpc \in {"idle", "ok", "failed"}
  /\ calls < MaxCalls
  /\ LET th == throttle(requestCount, windowStart, now)
     IN /\ requestCount' = th.requestCount
        /\ windowStart' = th.windowStart
        /\ now' = th.now
        /\ issued' = Append(issued, th.now)
  /\ cpc' = "inflight"
  /\ sends' = 1
  /\ waits' = <<>>
  /\ calls' = calls + 1
  /\ UNCHANGED <<n429, maxRequestsPerMinute, windowMs, lastThrottle>>
  /\ UNCHANGED restOfClient

\* the response interceptor: a 2xx response resolves the request; an error
\* goes to handleError, which on 429 waits, resets the limiter and calls
\* this.client.request(error.config) (through both interceptors again), and
\* otherwise throws
ClientResponse ==
  /\ cpc = "inflight"
  /\ \E status \in {200, 429, 500}, h \in RetryAfterHeaders :
       /\ status = 429 => n429 < Max429
       /\ status # 429 => h = NoHeader
       /\ n429' = IF status = 429 THEN n429 + 1 ELSE n429
       /\ IF status # 200 /\ ShouldReplay(status, sends)
            THEN LET hr == handleRetryAfter(RetryAfterSeconds(h), now)
                     th == throttle(hr.requestCount, hr.windowStart, hr.now)
                 IN /\ requestCount' = th.requestCount
                    /\ windowStart' = th.windowStart
                    /\ now' = th.now
                    /\ issued' = Append(issued, th.now)
                    /\ waits' = Append(waits, [header |-> h,
                                               slept |-> RetryAfterSeconds(h) * 1000,
                                               countAfter |-> hr.requestCount])
                    /\ sends' = sends + 1
                    /\ cpc' = "inflight"
            ELSE /\ cpc' = IF status = 200 THEN "ok" ELSE "failed"
                 /\ UNCHANGED <<now, requestCount, windowStart, sends, waits, issued>>
  /\ UNCHANGED <<calls, maxRequestsPerMinute, windowMs, lastThrottle>>
  /\ UNCHANGED restOfClient

\* time passes between two requests
Tick ==
  /\ cpc # "inflight"
  /\ now < MaxTicks * TickMs
  /\ now' = now + TickMs
  /\ UNCHANGED <<requestCount, windowStart, cpc, sends, waits, calls, n429,
                 maxRequestsPerMinute, windowMs, lastThrottle, issued>>
  /\ UNCHANGED restOfClient

\* ------------------------------------------------------------- rate limiter

MaxThrottles == 10                \* direct calls of throttle
Allowances == {1, 4, 5, 10}       \* options.maxRequestsPerMinute tried
Windows == {WindowMs, 1000}       \* options.windowMs tried

\* await limiter.throttle(), called directly on a RateLimiter
Throttle ==
  /\ cpc = "idle"
  /\ calls < MaxThrottles
  /\ LET th == throttle(requestCount, windowStart, now)
     IN /\ requestCount' = th.requestCount
        /\ windowStart' = th.windowStart
        /\ now' = th.now
        /\ issued' = Append(issued, th.now)
        /\ lastThrottle' = [entered |-> TRUE, count |-> requestCount,
                            start |-> windowStart, at |-> now, slept |-> th.slept,
                            woke |-> th.now]
  /\ calls' = calls + 1
  /\ UNCHANGED <<cpc, sends, waits, n429, maxRequestsPerMinute, windowMs>>
  /\ UNCHANGED restOfClient

\* ------------------------------------------------------------- client cache

MaxClients == 4     \* AdoClient instances constructed

\* config.organization and config.project of the calls tried
Orgs == {<<"a">>, <<"x">>, <<"a", "/", "b">>}
Projects == {<<"c">>, <<"b", "/", "c">>}

\* const key = `${config.organization}/${config.project}`
KeyOfProject(organization, project) == project
CacheKey(organization, project) == organization \o <<"/">> \o project

Keys == {CacheKey(o, p) : o \in Orgs, p \in Projects}

InitCacheVars ==
  /\ clientCache = [k \in Keys |-> 0]
  /\ created = 0
  /\ got = {}

\* getAdoClient(config)
getAdoClient ==
  /\ \E o \in Orgs, p \in Projects :
       LET key == CacheKey(o, p)
           miss == clientCache[key] = 0
           inst == IF miss THEN created + 1 ELSE clientCache[key]
       IN /\ miss => created < MaxClients
          /\ clientCache' = [clientCache EXCEPT ![key] = inst]
          /\ created' = IF miss THEN created + 1 ELSE created
          /\ got' = got \cup {[organization |-> o, project |-> p, client |-> inst]}
  /\ UNCHANGED restOfCache

\* clearClientCache()
clearClientCache ==
  /\ clientCache' = [k \in Keys |-> 0]
  /\ got' = {}
  /\ UNCHANGED created
  /\ UNCHANGED restOfCache

\* --------------------------------------------------------- metadata refresh

MaxRefreshes == 3     \* refreshes of the item

\* the fields of AdoMetadata followed: rev and state stand for the fields
\* extractAdoMetadata fills (workItemId, url, rev, lastSyncedAt, state,
\* assignedTo), which come from one object literal
MetaFields == {"rev", "state", "comments", "linkedPRs"}
Unset == -1

\* extractAdoMetadata(adoItem, ...) in refresh e
ExtractedMetadata(e) ==
  [f \in MetaFields |-> IF f \in {"rev", "state"} THEN e ELSE Unset]

\* updateItemMetadata: item._ado = {...item._ado, ...metadata}
SpreadMetadata(ado, md) == [f \in MetaFields |-> IF md[f] = Unset THEN ado[f] ELSE md[f]]

\* item._ado between extractAdoMetadata and the awaits that follow it
StoreBaseFirst(ado, md) == SpreadMetadata(ado, md)
AfterExtract(ado, md) == ado

InitRefreshVars ==
  /\ itemAdo = [f \in MetaFields |-> 0]
  /\ metadata = [f \in MetaFields |-> Unset]
  /\ rpc = "idle"
  /\ epoch = 0
  /\ rkind = [pull |-> FALSE, includeComments |-> FALSE, includePRs |-> FALSE]

\* pushWorkItems after the awaited getWorkItem: extractAdoMetadata,
\* updateItemMetadata
PushRefresh ==
  /\ rpc \in {"idle", "stored", "thrown"}
  /\ epoch < MaxRefreshes
  /\ epoch' = epoch + 1
  /\ rkind' = [pull |-> FALSE, includeComments |-> FALSE, includePRs |-> FALSE]
  /\ metadata' = ExtractedMetadata(epoch + 1)
  /\ itemAdo' = SpreadMetadata(itemAdo, metadata')
  /\ rpc' = "stored"
  /\ UNCHANGED restOfRefresh

\* pullWorkItems, loop body up to its first await: extractAdoMetadata, and
\* updateItemMetadata when neither comments nor pull requests are asked for
PullRefresh ==
  /\ rpc \in {"idle", "stored", "thrown"}
  /\ epoch < MaxRefreshes
  /\ \E c \in BOOLEAN, p \in BOOLEAN :
       /\ rkind' = [pull |-> TRUE, includeComments |-> c, includePRs |-> p]
       /\ metadata' = ExtractedMetadata(epoch + 1)
       /\ IF c \/ p
            THEN /\ itemAdo' = AfterExtract(itemAdo, metadata')
                 /\ rpc' = IF c THEN "comments" ELSE "prs"
            ELSE /\ itemAdo' = SpreadMetadata(itemAdo, metadata')
                 /\ rpc' = "stored"
  /\ epoch' = epoch + 1
  /\ UNCHANGED restOfRefresh

\* metadata.comments = await getAllComments(...) returns or throws
CommentsReturn ==
  /\ rpc = "comments"
  /\ \E ok \in BOOLEAN :
       IF ok
         THEN /\ metadata' = [metadata EXCEPT !["comments"] = epoch]
              /\ IF rkind.includePRs
                   THEN /\ rpc' = "prs"
                        /\ itemAdo' = AfterExtract(itemAdo, metadata')
                   ELSE /\ rpc' = "stored"
                        /\ itemAdo' = SpreadMetadata(itemAdo, metadata')
         ELSE /\ rpc' = "thrown"
              /\ UNCHANGED <<metadata, itemAdo>>
  /\ UNCHANGED <<epoch, rkind>>
  /\ UNCHANGED restOfRefresh

\* metadata.linkedPRs = await getLinkedPullRequests(...) returns or throws
PRsReturn ==
  /\ rpc = "prs"
  /\ \E ok \in BOOLEAN :
       IF ok
         THEN /\ metadata' = [metadata EXCEPT !["linkedPRs"] = epoch]
              /\ itemAdo' = SpreadMetadata(itemAdo, metadata')
              /\ rpc' = "stored"
         ELSE /\ rpc' = "thrown"
              /\ UNCHANGED <<metadata, itemAdo>>
  /\ UNCHANGED <<epoch, rkind>>
  /\ UNCHANGED restOfRefresh

\* ------------------------------------------------------------ batched fetch

MaxIds == 401        \* ids passed to getWorkItems
BatchLimit == 200    \* getWorkItems: chunk(ids, 200)

\* ids the service may have no record of
GoneSets == {{}, {1}, {BatchLimit, BatchLimit + 1}}

\* chunk(array, size) of utils: consecutive slices of size elements, the
\* last one shorter when the length is no multiple of size
chunk(array, size) ==
  [k \in 1 .. ((Len(array) + size - 1) \div size) |->
     SubSeq(array, (k - 1) * size + 1,
            IF k * size < Len(array) THEN k * size ELSE Len(array))]

\* const batches = chunk(ids, 200)
AllInOne(ids) == <<ids>>
Batches(ids) == chunk(ids, BatchLimit)

\* response.value of one batched request: the records the service has
BatchResponse(batch) == SelectSeq(batch, LAMBDA id : id \notin bGone)

InitBatchVars ==
  /\ bIds = <<>>
  /\ bGone = {}
  /\ bPc = "idle"
  /\ bBatches = <<>>
  /\ bNext = 1
  /\ bLog = <<>>
  /\ bResults = <<>>

\* getWorkItems(client, ids) up to the loop
getWorkItems ==
  /\ bPc = "idle"
  /\ bPc' = IF bIds = <<>> \/ Batches(bIds) = <<>> THEN "done" ELSE "post"
  /\ bBatches' = IF bIds = <<>> THEN <<>> ELSE Batches(bIds)
  /\ UNCHANGED <<bIds, bGone, bNext, bLog, bResults>>
  /\ UNCHANGED restOfBatch

\* one iteration: client.post of the batch, results.push(...response.value);
\* a failed request throws out of getWorkItems
BatchPost ==
  /\ bPc = "post"
  /\ \E ok \in BOOLEAN :
       IF ok
         THEN /\ bLog' = Append(bLog, [ids |-> bBatches[bNext],
                                       value |-> BatchResponse(bBatches[bNext])])
              /\ bResults' = bResults \o BatchResponse(bBatches[bNext])
              /\ bNext' = bNext + 1
              /\ bPc' = IF bNext + 1 > Len(bBatches) THEN "done" ELSE "post"
         ELSE /\ bPc' = "thrown"
              /\ UNCHANGED <<bLog, bResults, bNext>>
  /\ UNCHANGED <<bIds, bGone, bBatches>>
  /\ UNCHANGED restOfBatch

\* ---------------------------------------------------------------- comments

MaxComments == 250       \* comments of the work item
MaxPageRequests == 4     \* page requests followed
PageSize == 100          \* getAllComments: getComments(client, workItemId, 100, ...)

NoToken == -1

\* the service's answer to getComments(client, id, top, token): the page of
\* top comments after the offset the token stands for (from the start without
\* a token), their count, and the token of the next page
CommentsPage(total, top, token) ==
  LET off == IF token = NoToken THEN 0 ELSE token
      last == IF off + top < total THEN off + top ELSE total
  IN [comments |-> [k \in 1 .. (last - off) |-> off + k],
      count |-> last - off,
      continuationToken |-> IF last < total THEN last ELSE NoToken]

\* the token getAllComments passes with the next request: continuationToken
\* is declared and passed, and never assigned
NextToken(token, response) == token

InitCommentVars ==
  /\ cTotal = 0
  /\ cPc = "idle"
  /\ continuationToken = NoToken
  /\ comments = <<>>
  /\ cRequests = 0

\* getAllComments up to its first await: the first getComments request
getAllComments ==
  /\ cPc = "idle"
  /\ cPc' = "get"
  /\ cRequests' = 1
  /\ UNCHANGED <<cTotal, continuationToken, comments>>
  /\ UNCHANGED restOfComments

\* a page arrives (or the request throws): its comments are pushed; a page
\* of 100 leads to another request, a shorter page ends the loop
CommentsPageReturn ==
  /\ cPc = "get"
  /\ \E ok \in BOOLEAN :
       IF ok
         THEN LET response == CommentsPage(cTotal, PageSize, continuationToken)
                  hasMore == response.count = PageSize /\ ~(response.count < PageSize)
              IN /\ hasMore => cRequests < MaxPageRequests
                 /\ comments' = comments \o response.comments
                 /\ continuationToken' = NextToken(continuationToken, response)
                 /\ cPc' = IF hasMore THEN "get" ELSE "done"
                 /\ cRequests' = IF hasMore THEN cRequests + 1 ELSE cRequests
         ELSE /\ cPc' = "thrown"
              /\ UNCHANGED <<continuationToken, comments, cRequests>>
  /\ UNCHANGED cTotal
  /\ UNCHANGED restOfComments

\* ------------------------------------------------------------------ import

MaxNodes == 4          \* remote records of the imported graph, the root is 1
MaxDepthTried == 2     \* largest options.maxDepth tried

Nodes == 1 .. MaxNodes

\* work item types and tags of the remote records
Epic == "Epic"
Feature == "Feature"
PBI == "Product Backlog Item"
UserStory == "User Story"
Task == "Task"

\* tag.toLowerCase() on the tags used
ToLower(t) == IF t \in {"FE", "Fe", "fE"} THEN "fe" ELSE t

NoFilter == ""

\* a WorkItem made by transformAdoToYaml: its remote id, type, tags, children
NoItem == [id |-> 0, type |-> "", tags |-> <<>>, children |-> <<>>]

transformAdoToYaml(id) ==
  [id |-> id, type |-> iremote.kind[id].type, tags |-> iremote.kind[id].tags,
   children |-> <<>>]

\* getTypePrefix(type): prefixMap[type], for the types of the model
getTypePrefix(type) ==
  CASE type = Epic -> "epic"
    [] type = Feature -> "feat"
    [] type = PBI -> "pbi"
    [] type = UserStory -> "story"
    [] type = Task -> "task"
    [] OTHER -> "bug"

\* generateLocalId(type, adoId): `${typePrefix}-${adoId}`
generateLocalId(type, adoId) == <<getTypePrefix(type), "-", adoId>>

\* shouldIncludeItem(item, filterTag, filterType)
IncludeAll(item, filterTag, filterType) == TRUE
shouldIncludeItem(item, filterTag, filterType) ==
  IF filterTag = NoFilter /\ filterType = NoFilter THEN TRUE
  ELSE IF filterType # NoFilter /\ item.type # filterType THEN FALSE
  ELSE IF filterTag # NoFilter
         THEN \E k \in 1 .. Len(item.tags) : ToLower(item.tags[k]) = ToLower(filterTag)
         ELSE TRUE

\* const shouldApplyFilter = hasFilters && !filterDisabled && isRoot
shouldApplyFilter(fr) ==
  /\ (iopts.filterTag # NoFilter \/ iopts.filterType # NoFilter)
  /\ ~fr.filterDisabled
  /\ fr.isRoot

\* a call of fetchWorkItemTree that awaits its getWorkItem
Frame(id, depth, isRoot, filterDisabled) ==
  [id |-> id, depth |-> depth, isRoot |-> isRoot, filterDisabled |-> filterDisabled,
   pc |-> "fetch", item |-> NoItem, next |-> 1]

\* if (currentDepth > maxDepth) return null
TooDeep(depth) == depth > iopts.maxDepth

RECURSIVE Settle(_)
RECURSIVE Deliver(_, _)

\* the loop over childIds of the innermost call, from child number next on:
\* a child beyond the depth ceiling returns null at once, another child is
\* fetched (a new call); after the last child the call returns its work item
Settle(st) ==
  LET top == st[Len(st)]
      kids == iremote.kids[top.id]
  IN IF top.next <= Len(kids)
       THEN IF TooDeep(top.depth + 1)
              THEN Settle([st EXCEPT ![Len(st)].next = @ + 1])
              ELSE [stack |-> Append(st,
                                Frame(kids[top.next], top.depth + 1, FALSE,
                                      IF shouldApplyFilter(top) THEN TRUE
                                                                ELSE top.filterDisabled)),
                    tree |-> NoItem, returned |-> FALSE]
       ELSE Deliver(SubSeq(st, 1, Len(st) - 1), top.item)

\* the awaited call returns child (NoItem for null) to its caller
Deliver(st, child) ==
  IF st = <<>>
    THEN [stack |-> <<>>, tree |-> child, returned |-> TRUE]
    ELSE LET top == st[Len(st)]
             keep == /\ child # NoItem
                     /\ shouldApplyFilter(top) =>
                          shouldIncludeItem(child, iopts.filterTag, iopts.filterType)
         IN Settle([st EXCEPT ![Len(st)].next = @ + 1,
                              ![Len(st)].item.children =
                                 IF keep THEN Append(@, child) ELSE @])

RECURSIVE collectTypes(_)
\* collectTypes(item, types)
collectTypes(item) ==
  {item.type} \cup UNION {collectTypes(item.children[k]) : k \in 1 .. Len(item.children)}

\* const hasPBI = types.has('Product Backlog Item') || types.has('User Story')
OnlyProductBacklogItem(types) == PBI \in types
HasPBI(types) == PBI \in types \/ UserStory \in types

\* detectHierarchyType(rootItem)
detectHierarchyType(rootItem) ==
  LET types == collectTypes(rootItem)
  IN IF Epic \in types /\ Feature \in types /\ HasPBI(types) THEN "full"
     ELSE IF Feature \in types /\ HasPBI(types) THEN "medium"
     ELSE "simple"

\* a result pushed by fetchWorkItemTree
ImportResult(id, ok) ==
  [adoId |-> id, success |-> ok,
   childCount |-> IF ok THEN Len(iremote.kids[id]) ELSE 0]

InitImportVars ==
  /\ iremote = [kids |-> [n \in Nodes |-> <<>>],
                kind |-> [n \in Nodes |-> [type |-> Task, tags |-> <<>>]],
                failing |-> 0, heavy |-> 0]
  /\ iopts = [maxDepth |-> MaxDepthTried, filterTag |-> NoFilter, filterType |-> NoFilter,
              includeComments |-> FALSE]
  /\ ipc = "idle"
  /\ stack = <<>>
  /\ iresults = <<>>
  /\ fetchLog = <<>>
  /\ tree = NoItem
  /\ hierarchyType = ""

\* what a call that has returned (or a loop that has moved on) leaves: the
\* new stack, and at the end of the outermost call the document or the throw
\* of importFromAdo
Continue(r) ==
  /\ stack' = r.stack
  /\ tree' = r.tree
  /\ ipc' = IF ~r.returned THEN "running"
            ELSE IF r.tree = NoItem THEN "thrown" ELSE "done"
  /\ hierarchyType' = IF r.returned /\ r.tree # NoItem
                        THEN detectHierarchyType(r.tree) ELSE hierarchyType

\* fetchWorkItemTree after the enrichment: the result is recorded and the
\* children are fetched
AfterEnrich(st) ==
  /\ iresults' = Append(iresults, ImportResult(st[Len(st)].id, TRUE))
  /\ Continue(Settle([st EXCEPT ![Len(st)].pc = "children"]))

\* importFromAdo(client, parentId, config, options) up to its first await
importFromAdo ==
  /\ ipc = "idle"
  /\ IF TooDeep(0)
       THEN /\ ipc' = "thrown"
            /\ stack' = stack
       ELSE /\ ipc' = "running"
            /\ stack' = <<Frame(1, 0, TRUE, FALSE)>>
  /\ UNCHANGED <<iremote, iopts, iresults, fetchLog, tree, hierarchyType>>
  /\ UNCHANGED restOfImport

\* } catch (error) { results.push(...); return null; }: the failed call
\* returns null to the call whose stack is st
ImportRethrow(st) == [stack |-> <<>>, tree |-> NoItem, returned |-> TRUE]
ImportCatch(st) == Deliver(st, NoItem)

\* the awaited getWorkItem of the innermost call returns or throws
FetchReturn ==
  /\ ipc = "running"
  /\ stack[Len(stack)].pc = "fetch"
  /\ LET top == stack[Len(stack)]
     IN /\ fetchLog' = Append(fetchLog, [id |-> top.id, depth |-> top.depth])
        /\ IF top.id = iremote.failing
             THEN /\ iresults' = Append(iresults, ImportResult(top.id, FALSE))
                  /\ Continue(ImportCatch(SubSeq(stack, 1, Len(stack) - 1)))
             ELSE IF iopts.includeComments
                    THEN /\ stack' = [stack EXCEPT ![Len(stack)].pc = "comments",
                                                   ![Len(stack)].item =
                                                      transformAdoToYaml(top.id)]
                         /\ UNCHANGED <<iresults, tree, ipc, hierarchyType>>
                    ELSE AfterEnrich([stack EXCEPT ![Len(stack)].item =
                                                      transformAdoToYaml(top.id)])
  /\ UNCHANGED <<iremote, iopts>>
  /\ UNCHANGED restOfImport

\* getAllComments inside the call: a page of comments arrives; a short page
\* ends the loop, a page of 100 (a record with many comments) does not
ImportCommentsPage ==
  /\ ipc = "running"
  /\ stack[Len(stack)].pc = "comments"
  /\ IF stack[Len(stack)].id = iremote.heavy
       THEN /\ stack' = [stack EXCEPT ![Len(stack)].pc = "page"]
            /\ UNCHANGED <<iresults, tree, ipc, hierarchyType>>
       ELSE AfterEnrich(stack)
  /\ UNCHANGED <<iremote, iopts, fetchLog>>
  /\ UNCHANGED restOfImport

\* getAllComments inside the call: hasMore is true, the next page is
\* requested, with the continuation token never assigned (see NextToken)
ImportCommentsMore ==
  /\ ipc = "running"
  /\ stack[Len(stack)].pc = "page"
  /\ stack' = [stack EXCEPT ![Len(stack)].pc = "comments"]
  /\ UNCHANGED <<iremote, iopts, ipc, iresults, fetchLog, tree, hierarchyType>>
  /\ UNCHANGED restOfImport

\* ----------------------------------------------------------------- command

MaxFileItems == 3      \* work items of the file read by a command
MaxEngineCalls == 1    \* requests counted for the engine run of a command

Bug == "Bug"

FileItems == 1 .. MaxFileItems

\* the nested work items of a file whose item n has type t[n], local id d[n]
\* and parent p[n] (0: a root)
RECURSIVE FileItem(_, _, _, _)
FileItem(n, p, t, d) ==
  LET kids == SortedSeq({c \in FileItems : p[c] = n})
  IN [id |-> d[n], type |-> t[n],
      children |-> [k \in 1 .. Len(kids) |-> FileItem(kids[k], p, t, d)]]

WorkItemsOf(p, t, d) ==
  LET roots == SortedSeq({c \in FileItems : p[c] = 0})
  IN [k \in 1 .. Len(roots) |-> FileItem(roots[k], p, t, d)]

\* checkIds(items, path): the items from the k-th on in the order visited,
\* with their paths
RECURSIVE Visited(_, _, _)
Visited(items, path, k) ==
  IF k > Len(items) THEN <<>>
  ELSE <<[path |-> Append(path, k), id |-> items[k].id]>>
       \o Visited(items[k].children, Append(path, k), 1)
       \o Visited(items, path, k + 1)

\* validateUniqueIds(doc, errors)
validateUniqueIds(d) ==
  LET seen == Visited(d.workItems, <<>>, 1)
  IN {[path |-> seen[j].path, code |-> "DUPLICATE_ID"] :
        j \in {j \in 1 .. Len(seen) : \E i \in 1 .. j - 1 : seen[i].id = seen[j].id}}

validRootTypes(hierarchy) ==
  CASE hierarchy = "full" -> {Epic}
    [] hierarchy = "medium" -> {Feature}
    [] hierarchy = "simple" -> {PBI, UserStory, Bug}
    [] OTHER -> {}

validChildTypes(type) ==
  CASE type = Epic -> {Feature}
    [] type = Feature -> {PBI, UserStory, Bug}
    [] type \in {PBI, UserStory, Bug} -> {Task}
    [] OTHER -> {}

\* checkHierarchy(items, path, allowedTypes): the errors pushed
RECURSIVE checkHierarchy(_, _, _)
checkHierarchy(items, path, allowedTypes) ==
  UNION {(IF items[k].type \in allowedTypes THEN {}
          ELSE {[path |-> Append(path, k), code |-> "INVALID_HIERARCHY_TYPE"]})
         \cup checkHierarchy(items[k].children, Append(path, k),
                             validChildTypes(items[k].type)) :
           k \in 1 .. Len(items)}

\* validateHierarchyTypes(doc, errors, warnings): the errors
validateHierarchyTypes(d) ==
  checkHierarchy(d.workItems, <<>>, validRootTypes(d.hierarchyType))

\* validateDocument(doc)
validateDocument(d) ==
  IF ~d.shapeOk
    THEN [valid |-> FALSE, errors |-> {[path |-> <<>>, code |-> "invalid_type"]}]
    ELSE LET errors == validateUniqueIds(d) \cup validateHierarchyTypes(d)
         IN [valid |-> errors = {}, errors |-> errors]

NotValidated == [valid |-> TRUE, errors |-> {}]

\* if (!validation.valid) { ...; process.exit(1); }
NeverExits(v) == FALSE
ExitsOnInvalid(v) == ~v.valid

InitCommandVars ==
  /\ command = [name |-> "push", dryRun |-> FALSE]
  /\ yamlDoc = [shapeOk |-> TRUE, hierarchyType |-> "simple", workItems |-> <<>>]
  /\ cmdPc = "idle"
  /\ validation = NotValidated
  /\ remoteCalls = 0
  /\ fileWrites = 0
  /\ backups = 0

\* pushCommand / syncCommand up to client.testConnection(): the file is
\* parsed and validated, the client is made
ReadAndValidate ==
  /\ cmdPc = "idle"
  /\ validation' = validateDocument(yamlDoc)
  /\ cmdPc' = IF ExitsOnInvalid(validation') THEN "exited" ELSE "connect"
  /\ UNCHANGED <<command, yamlDoc, remoteCalls, fileWrites, backups>>
  /\ UNCHANGED restOfCommand

\* the awaited testConnection returns; then the backup, and the engine is
\* called
TestConnection ==
  /\ cmdPc = "connect"
  /\ remoteCalls' = remoteCalls + 1
  /\ \E connected \in BOOLEAN :
       /\ cmdPc' = IF connected THEN "engine" ELSE "exited"
       /\ backups' = IF connected /\ ~command.dryRun THEN backups + 1 ELSE backups
  /\ UNCHANGED <<command, yamlDoc, validation, fileWrites>>
  /\ UNCHANGED restOfCommand

\* the awaited pushWorkItems / syncWorkItems returns or throws; the file is
\* written unless the run is dry
EngineReturn ==
  /\ cmdPc = "engine"
  /\ \E sent \in 0 .. MaxEngineCalls, thrown \in BOOLEAN :
       /\ remoteCalls' = remoteCalls + sent
       /\ fileWrites' = IF ~thrown /\ ~command.dryRun THEN fileWrites + 1 ELSE fileWrites
       /\ cmdPc' = IF thrown THEN "exited" ELSE "done"
  /\ UNCHANGED <<command, yamlDoc, validation, backups>>
  /\ UNCHANGED restOfCommand

\* -------------------------------------------------------------------- diff

MaxRev == 3            \* largest revision of a compared remote record

COMPARE_FIELDS == {"title", "state", "tags"}

\* System.Tags is the tags joined by TagSep
TagSep == "; "
TagBe == "be"
TagFe == "fe"

\* the order of Array.prototype.sort on the tags used
TagRank(t) == IF t = TagBe THEN 1 ELSE 2

RECURSIVE SortTags(_)
SortTags(a) ==
  IF a = <<>> THEN <<>>
  ELSE LET m == CHOOSE k \in 1 .. Len(a) : \A j \in 1 .. Len(a) : TagRank(a[k]) <= TagRank(a[j])
       IN <<a[m]>> \o SortTags([j \in 1 .. Len(a) - 1 |-> IF j < m THEN a[j] ELSE a[j + 1]])

\* isEqual on two arrays
SameSequence(a, b) == a = b
isEqualArrays(a, b) ==
  /\ Len(a) = Len(b)
  /\ \A k \in 1 .. Len(a) : SortTags(a)[k] = SortTags(b)[k]

\* isEqual on the values of a field: tags are arrays, the others strings
isEqualValues(field, a, b) ==
  IF a = Undef THEN b = Undef
  ELSE IF b = Undef THEN FALSE
  ELSE IF field = "tags" THEN isEqualArrays(a, b)
  ELSE isEqual(a, b)

\* getAdoFieldValue(ado, field)
getAdoFieldValue(rec, field) ==
  CASE field = "title" -> rec.title
    [] field = "state" -> rec.state
    [] field = "tags" -> IF rec.tags = <<>> THEN Undef
                         ELSE SelectSeq(rec.tags, LAMBDA piece : piece # TagSep)

\* if (local._ado?.rev && ado.rev > local._ado.rev)
ConflictFromEqualRev(l, rec) == l.rev # NoRev /\ rec.rev >= l.rev
AdoIsNewer(l, rec) == l.rev # NoRev /\ rec.rev > l.rev

\* diffWorkItem(local, ado)
diffWorkItem(l, rec) ==
  IF ~rec.exists
    THEN [status |-> "new", changes |-> {f \in COMPARE_FIELDS : l[f] # Undef}]
    ELSE LET changes == {f \in COMPARE_FIELDS :
                           ~isEqualValues(f, l[f], getAdoFieldValue(rec, f))}
         IN [status |-> IF changes # {}
                          THEN IF AdoIsNewer(l, rec) THEN "conflict" ELSE "modified"
                          ELSE "unchanged",
             changes |-> changes]

NoDiff == [status |-> "", changes |-> {}]

NoAdo == [exists |-> FALSE, title |-> Undef, state |-> Undef, tags |-> <<>>, rev |-> NoRev]

InitDiffVars ==
  /\ dLocal = [title |-> TitleA, state |-> Undef, tags |-> Undef, rev |-> NoRev]
  /\ dAdo = NoAdo
  /\ diff = NoDiff

\* a call of diffWorkItem
Diff ==
  /\ diff = NoDiff
  /\ diff' = diffWorkItem(dLocal, dAdo)
  /\ UNCHANGED <<dLocal, dAdo>>
  /\ UNCHANGED restOfDiff

\* ----------------------------------------------------------------- flatten

MaxFlatNodes == 5      \* work items of a flattened Document

NoParent == 0

\* the nested work items of a Document whose node n has Document parent
\* par[n] (NoParent: a root); siblings are in the order of their numbers
RECURSIVE NestedItem(_, _)
NestedItem(n, par) ==
  LET kids == SortedSeq({c \in DOMAIN par : par[c] = n})
  IN [id |-> n, children |-> [k \in 1 .. Len(kids) |-> NestedItem(kids[k], par)]]

NestedWorkItems(par) ==
  LET roots == SortedSeq({c \in DOMAIN par : par[c] = NoParent})
  IN [k \in 1 .. Len(roots) |-> NestedItem(roots[k], par)]

\* traverse(item.children, itemWithParent, depth + 1)
SameDepth(depth) == depth
ChildDepth(depth) == depth + 1

\* traverse(items, parent, depth) of flattenHierarchy, with the entries it
\* pushes when result already holds pushed entries; the parent of an entry
\* is given by the position of the parent's entry in result
RECURSIVE traverseEntries(_, _, _, _)
traverseEntries(items, parent, depth, pushed) ==
  IF items = <<>> THEN <<>>
  ELSE LET itemWithParent == [id |-> Head(items).id, parent |-> parent, depth |-> depth]
           below == traverseEntries(Head(items).children, pushed + 1, ChildDepth(depth),
                                    pushed + 1)
       IN <<itemWithParent>> \o below
          \o traverseEntries(Tail(items), parent, depth, pushed + 1 + Len(below))

\* flattenHierarchy(doc): traverse(doc.workItems)
flattenEntries(workItems) == traverseEntries(workItems, NoParent, 0, 0)

InitFlattenVars ==
  /\ fParent = <<>>
  /\ flattened = <<>>
  /\ fPc = "idle"

\* a call of flattenHierarchy
Flatten ==
  /\ fPc = "idle"
  /\ flattened' = flattenEntries(NestedWorkItems(fParent))
  /\ fPc' = "done"
  /\ UNCHANGED fParent
  /\ UNCHANGED restOfFlatten

\* ------------------------------------------------------------ repeated runs

MaxReruns == 1     \* runs of pushCommand after the first

InitRerunVars ==
  /\ reruns = 0
  /\ prevRun = [results |-> <<>>, edits |-> 0]

\* pushCommand run again on the file the run before wrote: writeYamlFile(file,
\* doc) stored the caller's Document, which the next run reads and pushes
PushAgain ==
  /\ pc = "done"
  /\ strategy = "none"
  /\ reruns < MaxReruns
  /\ LET q == SelectSeq(flattenHierarchy(doc),
                        LAMBDA i : matchesFilter(LocalIdOf(i), opts.filter))
     IN /\ queue' = q
        /\ pc' = IF q = <<>> THEN "done" ELSE "decide"
  /\ flat' = PushCopies(flat, doc)
  /\ idx' = 1
  /\ results' = <<>>
  /\ reqLog' = <<>>
  /\ decided' = <<>>
  /\ reruns' = reruns + 1
  /\ prevRun' = [results |-> results, edits |-> edits]
  /\ UNCHANGED <<clientVars, cacheVars, refreshVars, batchVars, commentVars, importVars,
                 commandVars, diffVars, flattenVars>>
  /\ UNCHANGED <<doc, remote, nextId, opts, strategy, config, resultId, pullResults, adoMap,
                 refetched, edits, faults, quiet>>

\* ------------------------------------------------------------------- Init

\* a work item of the Document: unlinked, or linked to the record of its own number
ItemRecs(i) ==
  [parent : 0 .. (i - 1), title : LocalTitles, state : LocalStates,
   adoId : {NoId}, rev : {NoRev}]
  \cup [parent : 0 .. (i - 1), title : LocalTitles, state : LocalStates,
        adoId : {i}, rev : {NoRev, 1}]

Docs == {d \in [Items -> UNION {ItemRecs(i) : i \in Items}] :
           \A i \in Items : d[i] \in ItemRecs(i)}

\* the remote service before the run: one record for every linked item
InitialRemote(d) ==
  [id \in RemoteIds |->
     IF id \in Items /\ d[id].adoId = id
       THEN [exists |-> TRUE, rev |-> 1, title |-> TitleApad, state |-> StateNew,
             parent |-> NoId]
       ELSE EmptyRec]

PushOptions == [dryRun : BOOLEAN, force : BOOLEAN, createOnly : BOOLEAN,
                updateOnly : BOOLEAN, filter : Filters]

InitPush ==
  /\ doc \in Docs
  /\ remote = InitialRemote(doc)
  /\ nextId = MaxItems + 1
  /\ pc = "idle"
  /\ flat = FlatCopies(doc)
  /\ queue = <<>>
  /\ idx = 1
  /\ resultId = NoId
  /\ results = <<>>
  /\ pullResults = <<>>
  /\ adoMap = [id \in RemoteIds |-> EmptyRec]
  /\ reqLog = <<>>
  /\ decided = <<>>
  /\ refetched = [i \in Items |-> [adoId |-> NoId, rev |-> NoRev]]
  /\ edits = 0
  /\ faults = 0
  /\ quiet = TRUE

InitCommon ==
  /\ InitPush
  /\ InitClientVars
  /\ InitCacheVars
  /\ InitRefreshVars
  /\ InitBatchVars
  /\ InitCommentVars
  /\ InitImportVars
  /\ InitCommandVars
  /\ InitDiffVars
  /\ InitFlattenVars
  /\ InitRerunVars

Init ==
  /\ InitCommon
  /\ opts \in PushOptions
  /\ strategy = "none"
  /\ config = [includeComments |-> FALSE, includePRs |-> FALSE]

Next ==
  \/ PushStart
  \/ Decide
  \/ ExecuteCreate
  \/ Link
  \/ ExecuteUpdate
  \/ Refetch
  \/ RemoteEdit
  \/ RemoteDelete

Spec == Init /\ [][Next]_vars

\* syncWorkItems: pull with the configured enrichment, then push with the
\* dry-run flag passed through and force = (strategy = 'yaml-wins')
Strategies == {"yaml-wins", "ado-wins", "manual"}

SyncOptions(st, dry) ==
  [dryRun |-> dry, force |-> (st = "yaml-wins"), createOnly |-> FALSE,
   updateOnly |-> FALSE, filter |-> <<"*">>]

\* config.sync: comments and pull requests are fetched (the default) or not
SyncConfigs == {[includeComments |-> b, includePRs |-> b] : b \in BOOLEAN}

InitSync ==
  /\ InitCommon
  /\ strategy \in Strategies
  /\ \E dry \in BOOLEAN : opts = SyncOptions(strategy, dry)
  /\ config \in SyncConfigs

NextSync ==
  \/ PullStart
  \/ PullItem
  \/ PushStart
  \/ Decide
  \/ ExecuteCreate
  \/ Link
  \/ ExecuteUpdate
  \/ Refetch
  \/ RemoteEdit
  \/ RemoteDelete

SpecSync == InitSync /\ [][NextSync]_vars

\* pushCommand run and run again: real runs with the default modes
RerunOptions == [dryRun : {FALSE}, force : BOOLEAN, createOnly : {FALSE},
                 updateOnly : {FALSE}, filter : Filters]

InitRerun ==
  /\ InitCommon
  /\ opts \in RerunOptions
  /\ strategy = "none"
  /\ config = [includeComments |-> FALSE, includePRs |-> FALSE]

NextRerun ==
  \/ PushStart
  \/ Decide
  \/ ExecuteCreate
  \/ Link
  \/ ExecuteUpdate
  \/ Refetch
  \/ RemoteEdit
  \/ RemoteDelete
  \/ PushAgain

SpecRerun == InitRerun /\ [][NextRerun]_vars

\* the client alone: the Document and the service stay as constructed
InitClient ==
  /\ doc = [i \in Items |-> [parent |-> 0, title |-> TitleA, state |-> Undef,
                             adoId |-> NoId, rev |-> NoRev]]
  /\ InitCommon
  /\ opts = SyncOptions("manual", FALSE)
  /\ strategy = "none"
  /\ config = [includeComments |-> FALSE, includePRs |-> FALSE]

NextClient ==
  \/ ClientCall
  \/ ClientResponse
  \/ Tick

SpecClient == InitClient /\ [][NextClient]_vars

\* the client cache alone
InitCache == InitClient

NextCache ==
  \/ getAdoClient
  \/ clearClientCache

SpecCache == InitCache /\ [][NextCache]_vars

\* the refreshes of one item's metadata, by pull iterations and push re-fetches
InitRefresh == InitClient

NextRefresh ==
  \/ PushRefresh
  \/ PullRefresh
  \/ CommentsReturn
  \/ PRsReturn

SpecRefresh == InitRefresh /\ [][NextRefresh]_vars

\* getWorkItems alone, for every number of ids up to MaxIds
InitBatch ==
  /\ doc = [i \in Items |-> [parent |-> 0, title |-> TitleA, state |-> Undef,
                             adoId |-> NoId, rev |-> NoRev]]
  /\ InitPush
  /\ InitClientVars
  /\ InitCacheVars
  /\ InitRefreshVars
  /\ opts = SyncOptions("manual", FALSE)
  /\ strategy = "none"
  /\ config = [includeComments |-> FALSE, includePRs |-> FALSE]
  /\ InitCommentVars
  /\ InitImportVars
  /\ InitCommandVars
  /\ InitDiffVars
  /\ InitFlattenVars
  /\ InitRerunVars
  /\ \E n \in 0 .. MaxIds : bIds = [k \in 1 .. n |-> k]
  /\ bGone \in GoneSets
  /\ bPc = "idle"
  /\ bBatches = <<>>
  /\ bNext = 1
  /\ bLog = <<>>
  /\ bResults = <<>>

NextBatch ==
  \/ getWorkItems
  \/ BatchPost

SpecBatch == InitBatch /\ [][NextBatch]_vars

\* getAllComments alone, for a work item with any number of comments up to
\* MaxComments
InitComments ==
  /\ doc = [i \in Items |-> [parent |-> 0, title |-> TitleA, state |-> Undef,
                             adoId |-> NoId, rev |-> NoRev]]
  /\ InitPush
  /\ InitClientVars
  /\ InitCacheVars
  /\ InitRefreshVars
  /\ InitBatchVars
  /\ opts = SyncOptions("manual", FALSE)
  /\ strategy = "none"
  /\ config = [includeComments |-> FALSE, includePRs |-> FALSE]
  /\ InitImportVars
  /\ InitCommandVars
  /\ InitDiffVars
  /\ InitFlattenVars
  /\ InitRerunVars
  /\ cTotal \in 0 .. MaxComments
  /\ cPc = "idle"
  /\ continuationToken = NoToken
  /\ comments = <<>>
  /\ cRequests = 0

NextComments ==
  \/ getAllComments
  \/ CommentsPageReturn

SpecComments == InitComments /\ [][NextComments]_vars

\* the remote graphs imported: a tree of the records under the root, with
\* or without one more child relation that closes a cycle
TreeKids(par) ==
  [n \in Nodes |-> SortedSeq({c \in Nodes : c > 1 /\ par[c] = n})]

Parents == {par \in [Nodes -> 0 .. MaxNodes] :
              par[1] = 0 /\ \A c \in Nodes : c > 1 => (par[c] >= 1 /\ par[c] < c)}

BackEdges == {<<0, 0>>} \cup {<<a, b>> \in Nodes \X Nodes : b <= a /\ a \in {2, MaxNodes}}

GraphKids(par, e) ==
  [n \in Nodes |-> IF e[1] = n /\ \A k \in 1 .. Len(TreeKids(par)[n]) :
                                    TreeKids(par)[n][k] # e[2]
                     THEN Append(TreeKids(par)[n], e[2])
                     ELSE TreeKids(par)[n]]

\* the type and tags of the records
RootKinds == {[type |-> Epic, tags |-> <<>>], [type |-> Feature, tags |-> <<>>]}
ChildKinds == {[type |-> Feature, tags |-> <<"fe">>],
               [type |-> PBI, tags |-> <<"be", "FE">>],
               [type |-> PBI, tags |-> <<"be">>],
               [type |-> UserStory, tags |-> <<>>]}
LeafKinds == {[type |-> Task, tags |-> <<>>], [type |-> UserStory, tags |-> <<"fe">>]}

Kinds == {k \in [Nodes -> RootKinds \cup ChildKinds \cup LeafKinds] :
            /\ k[1] \in RootKinds
            /\ k[MaxNodes] \in LeafKinds
            /\ \A n \in Nodes : (n > 1 /\ n < MaxNodes) => k[n] \in ChildKinds}

OneKind == [n \in Nodes |-> IF n = 1 THEN [type |-> Feature, tags |-> <<>>]
                            ELSE [type |-> PBI, tags |-> <<"be">>]]

\* imports of trees with every labelling and filter, and imports of graphs
\* with cycles under every depth ceiling, with and without comments
FilterRuns ==
  {[remote |-> [kids |-> TreeKids(par), kind |-> k, failing |-> f, heavy |-> 0],
    options |-> [maxDepth |-> MaxDepthTried, filterTag |-> ft, filterType |-> fy,
                 includeComments |-> FALSE]] :
     par \in Parents, k \in Kinds, f \in 0 .. MaxNodes,
     ft \in {NoFilter, "Fe"}, fy \in {NoFilter, PBI}}

GraphRuns ==
  {[remote |-> [kids |-> GraphKids(par, e), kind |-> OneKind, failing |-> f, heavy |-> h],
    options |-> [maxDepth |-> d, filterTag |-> NoFilter, filterType |-> NoFilter,
                 includeComments |-> c]] :
     par \in Parents, e \in BackEdges, f \in 0 .. MaxNodes, h \in 0 .. MaxNodes,
     d \in 0 .. MaxDepthTried, c \in BOOLEAN}

ImportOf(runs) ==
  /\ doc = [i \in Items |-> [parent |-> 0, title |-> TitleA, state |-> Undef,
                             adoId |-> NoId, rev |-> NoRev]]
  /\ InitPush
  /\ InitClientVars
  /\ InitCacheVars
  /\ InitRefreshVars
  /\ InitBatchVars
  /\ InitCommentVars
  /\ InitCommandVars
  /\ InitDiffVars
  /\ InitFlattenVars
  /\ InitRerunVars
  /\ opts = SyncOptions("manual", FALSE)
  /\ strategy = "none"
  /\ config = [includeComments |-> FALSE, includePRs |-> FALSE]
  /\ \E run \in runs :
       /\ iremote = run.remote
       /\ iopts = run.options
  /\ ipc = "idle"
  /\ stack = <<>>
  /\ iresults = <<>>
  /\ fetchLog = <<>>
  /\ tree = NoItem
  /\ hierarchyType = ""

InitImport == ImportOf(FilterRuns \cup GraphRuns)

NextImport ==
  \/ importFromAdo
  \/ FetchReturn
  \/ ImportCommentsPage
  \/ ImportCommentsMore

SpecImport == InitImport /\ [][NextImport]_vars

\* imports with the comments included, every record found, the running
\* import always taking its next step
CommentRuns == {run \in GraphRuns : /\ run.options.includeComments
                                    /\ run.options.maxDepth = MaxDepthTried
                                    /\ run.remote.failing = 0}

InitImportLive == ImportOf(CommentRuns)

SpecImportLive == InitImportLive /\ [][NextImport]_vars /\ WF_vars(NextImport)

\* the files read by a command
FileParents == {p \in [FileItems -> 0 .. MaxFileItems] : \A c \in FileItems : p[c] < c}
FileTypes == {t \in [FileItems -> {Epic, Feature, PBI, Task}] :
                t[MaxFileItems] \in {PBI, Task}}
FileIds == {d \in [FileItems -> {"a", "b", "c"}] : d[1] = "a" /\ d[2] = "b"}

YamlDocs ==
  {[shapeOk |-> ok, hierarchyType |-> h, workItems |-> WorkItemsOf(p, t, d)] :
     ok \in BOOLEAN, h \in {"full", "medium", "simple"},
     p \in FileParents, t \in FileTypes, d \in FileIds}

InitCommand ==
  /\ doc = [i \in Items |-> [parent |-> 0, title |-> TitleA, state |-> Undef,
                             adoId |-> NoId, rev |-> NoRev]]
  /\ InitPush
  /\ InitClientVars
  /\ InitCacheVars
  /\ InitRefreshVars
  /\ InitBatchVars
  /\ InitCommentVars
  /\ InitImportVars
  /\ InitDiffVars
  /\ InitFlattenVars
  /\ InitRerunVars
  /\ opts = SyncOptions("manual", FALSE)
  /\ strategy = "none"
  /\ config = [includeComments |-> FALSE, includePRs |-> FALSE]
  /\ command \in [name : {"push", "sync"}, dryRun : BOOLEAN]
  /\ yamlDoc \in YamlDocs
  /\ cmdPc = "idle"
  /\ validation = NotValidated
  /\ remoteCalls = 0
  /\ fileWrites = 0
  /\ backups = 0

NextCommand ==
  \/ ReadAndValidate
  \/ TestConnection
  \/ EngineReturn

SpecCommand == InitCommand /\ [][NextCommand]_vars

\* diffWorkItem on any local item and remote record
LocalTags == {Undef, <<>>, <<TagFe>>, <<TagBe, TagFe>>, <<TagFe, TagBe>>, <<TagFe, TagFe>>}
AdoTags == {<<>>, <<TagFe>>, <<TagBe, TagSep, TagFe>>, <<TagFe, TagSep, TagBe>>,
            <<TagFe, TagSep, TagFe>>}

InitDiff ==
  /\ doc = [i \in Items |-> [parent |-> 0, title |-> TitleA, state |-> Undef,
                             adoId |-> NoId, rev |-> NoRev]]
  /\ InitPush
  /\ InitClientVars
  /\ InitCacheVars
  /\ InitRefreshVars
  /\ InitBatchVars
  /\ InitCommentVars
  /\ InitImportVars
  /\ InitCommandVars
  /\ InitFlattenVars
  /\ InitRerunVars
  /\ opts = SyncOptions("manual", FALSE)
  /\ strategy = "none"
  /\ config = [includeComments |-> FALSE, includePRs |-> FALSE]
  /\ dLocal \in [title : {TitleA, TitleApad, TitleB}, state : {Undef, StateNew},
                 tags : LocalTags, rev : NoRev .. MaxRev - 1]
  /\ dAdo \in {NoAdo} \cup [exists : {TRUE}, title : {TitleA, TitleApad, TitleB},
                            state : {Undef, StateNew}, tags : AdoTags, rev : 1 .. MaxRev]
  /\ diff = NoDiff

NextDiff == Diff

SpecDiff == InitDiff /\ [][NextDiff]_vars

\* flattenHierarchy on any Document
Nestings == UNION {{par \in [1 .. n -> 0 .. n] : \A c \in 1 .. n : par[c] < c} :
                     n \in 0 .. MaxFlatNodes}

InitFlatten ==
  /\ doc = [i \in Items |-> [parent |-> 0, title |-> TitleA, state |-> Undef,
                             adoId |-> NoId, rev |-> NoRev]]
  /\ InitPush
  /\ InitClientVars
  /\ InitCacheVars
  /\ InitRefreshVars
  /\ InitBatchVars
  /\ InitCommentVars
  /\ InitImportVars
  /\ InitCommandVars
  /\ InitDiffVars
  /\ InitRerunVars
  /\ opts = SyncOptions("manual", FALSE)
  /\ strategy = "none"
  /\ config = [includeComments |-> FALSE, includePRs |-> FALSE]
  /\ fParent \in Nestings
  /\ flattened = <<>>
  /\ fPc = "idle"

NextFlatten == Flatten

SpecFlatten == InitFlatten /\ [][NextFlatten]_vars

\* a RateLimiter alone, constructed with options
InitLimiter ==
  /\ doc = [i \in Items |-> [parent |-> 0, title |-> TitleA, state |-> Undef,
                             adoId |-> NoId, rev |-> NoRev]]
  /\ InitPush
  /\ InitLimiterState
  /\ InitCacheVars
  /\ InitRefreshVars
  /\ InitBatchVars
  /\ InitCommentVars
  /\ InitImportVars
  /\ InitCommandVars
  /\ InitDiffVars
  /\ InitFlattenVars
  /\ InitRerunVars
  /\ maxRequestsPerMinute \in Allowances
  /\ windowMs \in Windows
  /\ opts = SyncOptions("manual", FALSE)
  /\ strategy = "none"
  /\ config = [includeComments |-> FALSE, includePRs |-> FALSE]

NextLimiter ==
  \/ Throttle
  \/ Tick

SpecLimiter == InitLimiter /\ [][NextLimiter]_vars

\* ================================================================== claims

Mutating == {"create", "update", "link", "delete"}

\* the decision made for item i (the latest one)
DecisionOf(i) ==
  LET ks == {k \in 1 .. Len(decided) : decided[k].item = i}
  IN decided[CHOOSE k \in ks : \A j \in ks : j <= k]

Decided(i) == \E k \in 1 .. Len(decided) : decided[k].item = i

ResultsOf(i) == {results[k] : k \in {j \in 1 .. Len(results) : results[j].item = i}}

RequestsOf(i) == {reqLog[k] : k \in {j \in 1 .. Len(reqLog) : reqLog[j].item = i}}

\* the decision step fetched a record whose revision exceeds the recorded one
RevisionBehind(d) == d.fetched /\ d.localRev # NoRev /\ d.adoRev > d.localRev

\* C1: every update request carries a revision precondition equal to the
\* revision of the record fetched for the item in the decision step of the run.
C1_UpdateCarriesFetchedRevision ==
  \A k \in 1 .. Len(reqLog) :
    reqLog[k].op = "update" =>
      /\ DecisionOf(reqLog[k].item).fetched
      /\ reqLog[k].exp = DecisionOf(reqLog[k].item).adoRev

\* C2 (as claimed): without force and create-only, an item that records a
\* revision and whose fetched revision is greater is reported as a conflict
\* with success = false, and no create, update or link request is sent for it.
C2_ConflictReportedFailed ==
  (~opts.force /\ ~opts.createOnly) =>
    \A i \in Items :
      (Decided(i) /\ RevisionBehind(DecisionOf(i))) =>
        /\ ResultsOf(i) = {Result(i, "conflict", FALSE, flat[i].adoId)}
        /\ \A r \in RequestsOf(i) : r.op \notin Mutating

\* C2 (amended): the same outside a dry run; in a dry run the item is still
\* reported as a conflict and nothing is sent, but with success = true.
C2_ConflictReported ==
  (~opts.force /\ ~opts.createOnly) =>
    \A i \in Items :
      (Decided(i) /\ RevisionBehind(DecisionOf(i))) =>
        /\ \A r \in ResultsOf(i) : r.action = "conflict" /\ r.success = opts.dryRun
        /\ Cardinality(ResultsOf(i)) = 1
        /\ \A r \in RequestsOf(i) : r.op \notin Mutating

C2_Witness ==
  /\ pc = "done"
  /\ ~opts.force /\ ~opts.createOnly /\ ~opts.dryRun
  /\ \E i \in Items :
       /\ Decided(i) /\ RevisionBehind(DecisionOf(i))
       /\ DecisionOf(i).changed
       /\ Result(i, "conflict", FALSE, flat[i].adoId) \in ResultsOf(i)

\* the items the run reports a successful create or update for
Written(i) == \E r \in ResultsOf(i) : r.success /\ r.action \in {"create", "update"}

\* C3: after a push that is not a dry run, every item of the Document with a
\* successful create or update carries the remote id and the revision that
\* the post-write re-fetch of the item returned.
C3_DocumentCarriesRefetchedMetadata ==
  (pc = "done" /\ ~opts.dryRun) =>
    \A i \in Items :
      (Written(i) /\ refetched[i].adoId # NoId) =>
        /\ doc[i].adoId = refetched[i].adoId
        /\ doc[i].rev = refetched[i].rev

\* C4: in a combined sync with yaml-wins, an item with local field changes
\* whose remote revision is greater than the recorded one is pushed through:
\* the record takes the local values and the item is a successful update.
\* (Stated for runs in which no request fails in transport and no other user
\* changes the service after the sync has started.)
C4_PreferLocalPushesThrough ==
  (pc = "done" /\ strategy = "yaml-wins" /\ ~opts.dryRun /\ faults = 0 /\ quiet) =>
    \A i \in Items :
      (Decided(i) /\ DecisionOf(i).fetched /\ DecisionOf(i).changed
         /\ doc[i].rev # NoRev /\ DecisionOf(i).adoRev > doc[i].rev) =>
        /\ ResultsOf(i) = {Result(i, "update", TRUE, doc[i].adoId)}
        /\ isEqual(doc[i].title, remote[doc[i].adoId].title)

\* the remote id the parent of item i carries in its local metadata: stored by
\* a write of this run, else recorded in the Document before the run
KnownParentId(i) ==
  IF doc[i].parent = 0 THEN NoId
  ELSE IF refetched[doc[i].parent].adoId # NoId THEN refetched[doc[i].parent].adoId
  ELSE doc[doc[i].parent].adoId

\* C5: a successful create of an item whose parent carries a remote id is
\* followed at once by exactly one parent-link request from the new id to
\* that id, before any other request; parents are processed before children.
C5_LinkFollowsCreate ==
  /\ \A k \in 1 .. Len(reqLog) :
       (reqLog[k].op = "create" /\ reqLog[k].ok
          /\ KnownParentId(reqLog[k].item) # NoId) =>
         /\ IF k = Len(reqLog)
              THEN pc = "link" /\ queue[idx] = reqLog[k].item
              ELSE /\ reqLog[k + 1].op = "link"
                   /\ reqLog[k + 1].item = reqLog[k].item
                   /\ reqLog[k + 1].id = reqLog[k].id
                   /\ reqLog[k + 1].par = KnownParentId(reqLog[k].item)
         /\ Cardinality({j \in 1 .. Len(reqLog) :
                           reqLog[j].op = "link" /\ reqLog[j].item = reqLog[k].item}) <= 1
  /\ \A a, b \in 1 .. Len(queue) : a < b => doc[queue[a]].parent # queue[b]

C5_Witness ==
  /\ pc = "done"
  /\ \E k \in 1 .. Len(reqLog) :
       /\ reqLog[k].op = "link" /\ reqLog[k].ok
       /\ doc[doc[reqLog[k].item].parent].adoId = NoId
       /\ reqLog[k].par = refetched[doc[reqLog[k].item].parent].adoId

\* C6: a dry-run push sends no create, update, parent-link or delete request.
C6_DryRunSendsNoMutation ==
  opts.dryRun => \A k \in 1 .. Len(reqLog) : reqLog[k].op \notin Mutating

C6_Witness ==
  /\ pc = "done"
  /\ opts.dryRun
  /\ \E k \in 1 .. Len(results) : results[k].action = "create"
  /\ \E k \in 1 .. Len(results) : results[k].action = "update"

\* C7: a failed create or update request leaves a failed result for its item,
\* and every later item of the filtered sequence is still processed.
C7_FailureDoesNotAbort ==
  /\ \A k \in 1 .. Len(reqLog) :
       (reqLog[k].op \in {"create", "update"} /\ ~reqLog[k].ok) =>
         \E r \in ResultsOf(reqLog[k].item) : ~r.success
  /\ pc = "done" =>
       \A q \in 1 .. Len(queue) : Decided(queue[q]) /\ ResultsOf(queue[q]) # {}

C7_Witness ==
  /\ pc = "done"
  /\ Len(queue) >= 2
  /\ \E r \in RequestsOf(queue[1]) : r.op \in {"create", "update"} /\ ~r.ok
  /\ \E r \in ResultsOf(queue[2]) : r.success /\ r.action \in {"create", "update"}

\* C8: push never sends a create request in update-only mode and never an
\* update request in create-only mode, also for items whose record is gone.
C8_ModesRestrictRequests ==
  /\ opts.updateOnly => \A k \in 1 .. Len(reqLog) : reqLog[k].op # "create"
  /\ opts.createOnly => \A k \in 1 .. Len(reqLog) : reqLog[k].op # "update"

C8_Witness ==
  /\ pc = "done"
  /\ opts.updateOnly /\ ~opts.createOnly /\ ~opts.dryRun
  /\ \E i \in Items :
       /\ Req("get", i, doc[i].adoId, NoRev, NoId, FALSE) \in RequestsOf(i)
       /\ ~remote[doc[i].adoId].exists
       /\ ResultsOf(i) = {Result(i, "skip", TRUE, doc[i].adoId)}

\* C9 (as claimed): an item is reported as a conflict only when the remote
\* revision differs from the recorded one and a compared field differs.
C9_ConflictNeedsFieldChange ==
  \A k \in 1 .. Len(results) :
    results[k].action = "conflict" =>
      /\ DecisionOf(results[k].item).adoRev # DecisionOf(results[k].item).localRev
      /\ DecisionOf(results[k].item).changed

\* C9 (amended): an item is reported as a conflict only when the push is not
\* forced, the item records a revision and the fetched revision is strictly
\* greater; the compared fields need not differ.
C9_ConflictNeedsNewerRevision ==
  \A k \in 1 .. Len(results) :
    results[k].action = "conflict" =>
      /\ ~opts.force
      /\ RevisionBehind(DecisionOf(results[k].item))

C9_Witness ==
  /\ pc = "done"
  /\ \E k \in 1 .. Len(results) :
       /\ results[k].action = "conflict"
       /\ ~DecisionOf(results[k].item).changed

\* C10: a request answered 429 is sent again exactly once; when the replay
\* fails as well (with whatever status), the failure goes to the caller and
\* the request is not sent a third time.  Before the replay the client has
\* slept the delay of the header (60 s without one) and reset the counter.
C10_ReplayedExactlyOnce ==
  /\ sends <= 2
  /\ \A k \in 1 .. Len(waits) :
       /\ waits[k].countAfter = 0
       /\ waits[k].header \notin {NoHeader, 0} => waits[k].slept = waits[k].header * 1000
       /\ waits[k].header = NoHeader => waits[k].slept = DefaultRetryAfter * 1000

\* C11: a throttle call that finds fewer than 0.8 * N requests counted in the
\* current window is admitted without suspending and counted; the call that
\* finds the count at 0.8 * N suspends until the window has fully elapsed,
\* and afterwards the counter counts only that call.
CountedInWindow ==
  IF lastThrottle.at - lastThrottle.start >= windowMs THEN 0 ELSE lastThrottle.count

WindowEnd ==
  IF lastThrottle.at - lastThrottle.start >= windowMs
    THEN lastThrottle.at + windowMs
    ELSE lastThrottle.start + windowMs

C11_ThrottleAtEightyPercent ==
  lastThrottle.entered =>
    /\ CountedInWindow * 10 < maxRequestsPerMinute * 8 =>
         /\ ~lastThrottle.slept
         /\ lastThrottle.woke = lastThrottle.at
         /\ requestCount = CountedInWindow + 1
    /\ CountedInWindow * 10 >= maxRequestsPerMinute * 8 =>
         /\ lastThrottle.slept
         /\ lastThrottle.woke >= WindowEnd
         /\ windowStart >= WindowEnd
         /\ requestCount = 1
    /\ (maxRequestsPerMinute = 10 /\ calls = 9 /\ lastThrottle.at < windowMs) =>
         lastThrottle.slept /\ requestCount = 1
    /\ (maxRequestsPerMinute = 10 /\ calls < 9 /\ lastThrottle.at < windowMs) =>
         ~lastThrottle.slept

\* the ninth call in the first window of an allowance of 10 has slept
C11_Witness ==
  /\ maxRequestsPerMinute = 10
  /\ calls = 9
  /\ lastThrottle.entered
  /\ lastThrottle.count = 8
  /\ lastThrottle.slept
  /\ requestCount = 1

\* C12 (as claimed): between cache clears two requests return the same
\* client exactly when they name the same organization/project pair.
C12_OneClientPerPair ==
  \A g1, g2 \in got :
    (g1.organization = g2.organization /\ g1.project = g2.project)
      <=> g1.client = g2.client

\* names as the remote service allows them: without "/"
NoSlash(name) == \A k \in 1 .. Len(name) : name[k] # "/"
Plain(g) == NoSlash(g.organization) /\ NoSlash(g.project)

\* C12 (amended): between cache clears requests for the same pair return the
\* same client; requests for different pairs return different clients when
\* the names contain no "/", and the same client when organization "/"
\* project is the same text for both.
C12_OneClientPerKey ==
  \A g1, g2 \in got :
    /\ (g1.organization = g2.organization /\ g1.project = g2.project)
         => g1.client = g2.client
    /\ (Plain(g1) /\ Plain(g2) /\ g1.client = g2.client)
         => (g1.organization = g2.organization /\ g1.project = g2.project)
    /\ CacheKey(g1.organization, g1.project) = CacheKey(g2.organization, g2.project)
         <=> g1.client = g2.client

\* since the last clear two plain pairs with the same project and different
\* organizations have been served, by different clients
C12_Witness ==
  /\ created >= 2
  /\ \E g1, g2 \in got :
       /\ Plain(g1) /\ Plain(g2)
       /\ g1.organization # g2.organization
       /\ g1.project = g2.project
       /\ g1.client # g2.client

\* C13: in a combined sync, when the push phase has made a decision or sent a
\* request, the pull phase has a result for every linked item of the
\* Document, and no pull request follows a push request.
PullOps == {"batch", "enrich"}

PushBegun ==
  \/ decided # <<>>
  \/ \E k \in 1 .. Len(reqLog) : reqLog[k].op \notin PullOps

C13_PullBeforePush ==
  (strategy # "none" /\ PushBegun) =>
    /\ \A i \in Items :
         doc[i].adoId # NoId => \E k \in 1 .. Len(pullResults) : pullResults[k].item = i
    /\ \A j, k \in 1 .. Len(reqLog) :
         (j < k /\ reqLog[k].op \in PullOps) => reqLog[j].op \in PullOps

\* a sync that pulled two linked items and then pushed an update
C13_Witness ==
  /\ strategy # "none"
  /\ pc = "done"
  /\ Len(pullResults) = MaxItems
  /\ \E k \in 1 .. Len(reqLog) : reqLog[k].op = "update"

\* C14: when pull has returned, every item of the caller's Document for which
\* it reports success carries the revision of the record fetched for it in
\* that pull (and likewise the remote state, stored by the same assignment).
C14_DocumentCarriesPulledMetadata ==
  pc = "pulled" =>
    \A k \in 1 .. Len(pullResults) :
      pullResults[k].success =>
        doc[pullResults[k].item].rev = adoMap[pullResults[k].workItemId].rev

\* the pull results of item i
PullResultsOf(i) == {k \in 1 .. Len(pullResults) : pullResults[k].item = i}

\* pull has looked for item i's record in the batch response and not found it
AbsentInPull(i) ==
  /\ strategy # "none"
  /\ pc \in {"pull", "pulled"}
  /\ doc[i].adoId # NoId
  /\ ~adoMap[doc[i].adoId].exists
  /\ \E k \in 1 .. Len(queue) : queue[k] = i /\ (k < idx \/ pc = "pulled")

\* C15: an item whose remote id is absent from the batch response gets one
\* pull result, failed and with an error, and stays in the Document with its
\* fields and metadata as they were.
C15_AbsentItemReportedAndKept ==
  \A i \in Items :
    AbsentInPull(i) =>
      /\ Cardinality(PullResultsOf(i)) = 1
      /\ \A k \in PullResultsOf(i) :
           /\ ~pullResults[k].success
           /\ pullResults[k].error # "none"
           /\ pullResults[k].workItemId = doc[i].adoId
      /\ flat[i] = FlatCopies(doc)[i]

\* the record of one of two linked items was deleted before the pull, which
\* has processed both
C15_Witness ==
  /\ pc = "pulled"
  /\ \E i, j \in Items :
       /\ AbsentInPull(i)
       /\ \E k \in PullResultsOf(j) : pullResults[k].success

\* C16: when the comment or pull-request fetch of an item throws during pull,
\* the item gets a failed result, and every later linked item is still
\* processed: when pull has returned, each has a result.
EnrichFailed(i) ==
  \E k \in 1 .. Len(reqLog) :
    reqLog[k].op = "enrich" /\ reqLog[k].item = i /\ ~reqLog[k].ok

C16_EnrichFailureDoesNotAbortPull ==
  \A i \in Items :
    EnrichFailed(i) =>
      /\ \E k \in PullResultsOf(i) : ~pullResults[k].success /\ pullResults[k].error # "none"
      /\ \A k \in PullResultsOf(i) : ~pullResults[k].success
      /\ pc \notin {"idle", "pull", "crashed"} =>
           \A j \in Items : doc[j].adoId # NoId => PullResultsOf(j) # {}

\* the fetch for the first of two linked items threw and the second was pulled
C16_Witness ==
  /\ pc = "pulled"
  /\ Len(queue) = 2
  /\ EnrichFailed(queue[1])
  /\ \E k \in PullResultsOf(queue[2]) : pullResults[k].success

\* C17: pull always returns a result list: when the batched fetch fails, pull
\* still returns, with a failed result for every linked item.
BatchFailed == \E k \in 1 .. Len(reqLog) : reqLog[k].op = "batch" /\ ~reqLog[k].ok

C17_PullAlwaysReturns ==
  BatchFailed =>
    /\ pc # "crashed"
    /\ \A i \in Items :
         doc[i].adoId # NoId => \E k \in PullResultsOf(i) : ~pullResults[k].success

\* the fields of item._ado stored by the refresh begun last
StoredByLast == {f \in MetaFields : itemAdo[f] = epoch}

\* the fields that refresh produces when it completes
ProducedByLast ==
  {"rev", "state"}
    \cup (IF rkind.pull /\ rkind.includeComments THEN {"comments"} ELSE {})
    \cup (IF rkind.pull /\ rkind.includePRs THEN {"linkedPRs"} ELSE {})

\* C18: at every suspension point of a refresh the item holds either none or
\* all of the fields that refresh produces: none while its fetches are
\* awaited and when one of them threw, all once it has been stored.
C18_MetadataStoredInOneStep ==
  epoch > 0 =>
    /\ rpc \in {"comments", "prs", "thrown"} => StoredByLast = {}
    /\ rpc = "stored" => StoredByLast = ProducedByLast

\* a pull refresh awaits the pull requests after the comments of an item
\* that an earlier refresh has stored
C18_Witness ==
  /\ epoch >= 2
  /\ rpc = "prs"
  /\ rkind.includeComments
  /\ metadata["comments"] = epoch
  /\ itemAdo["rev"] = epoch - 1

RECURSIVE Concat(_, _)
\* the concatenation of field f of the first n entries of the request log
Concat(f, n) == IF n = 0 THEN <<>> ELSE Concat(f, n - 1) \o bLog[n][f]

\* C19: a batched fetch of n ids that has returned has sent ceil(n / 200)
\* requests of at most 200 ids each, which together carry every requested id
\* exactly once, and its result is the concatenation of the responses in
\* request order.
C19_BatchesOfTwoHundred ==
  /\ \A k \in 1 .. Len(bLog) : Len(bLog[k].ids) <= BatchLimit
  /\ bPc = "done" =>
       /\ Len(bLog) * BatchLimit >= Len(bIds)
       /\ (Len(bLog) - 1) * BatchLimit < Len(bIds) \/ bIds = <<>>
       /\ bIds = <<>> => bLog = <<>>
       /\ Concat("ids", Len(bLog)) = bIds
       /\ bResults = Concat("value", Len(bLog))

\* 401 ids were fetched with three requests
C19_Witness ==
  /\ bPc = "done"
  /\ Len(bIds) = 2 * BatchLimit + 1
  /\ Len(bLog) = 3
  /\ Len(bLog[3].ids) = 1

\* C20: fetching all comments of a work item with n comments requests
\* successive pages until a short one arrives: it sends at most n / 100 + 1
\* requests, collects no comment twice, and returns every comment.
C20_AllCommentsOnce ==
  /\ cRequests <= cTotal \div PageSize + 1
  /\ \A j, k \in 1 .. Len(comments) : j # k => comments[j] # comments[k]
  /\ cPc = "done" => comments = [k \in 1 .. cTotal |-> k]

\* ---------------------------------------------------------------- import

RECURSIVE FetchedSubtree(_, _)
\* record n at depth d with every descendant that was fetched: the records
\* whose fetch succeeds, down to the depth ceiling, whatever the filter
FetchedSubtree(n, d) ==
  LET fetched == SelectSeq(iremote.kids[n],
                           LAMBDA k : k # iremote.failing /\ d + 1 <= iopts.maxDepth)
  IN [id |-> n, type |-> iremote.kind[n].type, tags |-> iremote.kind[n].tags,
      children |-> [k \in 1 .. Len(fetched) |-> FetchedSubtree(fetched[k], d + 1)]]

FilterSet == iopts.filterTag # NoFilter \/ iopts.filterType # NoFilter

\* an item passes the filter: it has the type asked for, and a tag equal to
\* the tag asked for up to case
PassesFilter(item) ==
  /\ iopts.filterType # NoFilter => item.type = iopts.filterType
  /\ iopts.filterTag # NoFilter =>
       \E k \in 1 .. Len(item.tags) : ToLower(item.tags[k]) = ToLower(iopts.filterTag)

\* C21: an import with a tag or type filter returns the root, whether or
\* not it passes the filter, with exactly those successfully fetched direct
\* children that pass the filter, in order, each with all of its fetched
\* descendants
C21_FilterOnlyDirectChildren ==
  (ipc = "done" /\ FilterSet) =>
    tree = [FetchedSubtree(1, 0) EXCEPT
              !.children = SelectSeq(@, LAMBDA c : PassesFilter(c))]

\* an import with a filter that the root does not pass has dropped a child
\* and kept another one together with a descendant that does not pass
C21_Witness ==
  /\ ipc = "done"
  /\ FilterSet
  /\ ~PassesFilter(tree)
  /\ Len(tree.children) < Len(FetchedSubtree(1, 0).children)
  /\ \E k \in 1 .. Len(tree.children) :
       /\ tree.children[k].children # <<>>
       /\ ~PassesFilter(tree.children[k].children[1])

Finished == ipc \in {"done", "thrown"}

\* C22: every import ends, whatever the remote relation graph (cyclic ones
\* included), and no record is ever fetched deeper than the depth ceiling,
\* the root being at depth 0
C22_TerminatesWithinDepth ==
  /\ [](\A k \in 1 .. Len(fetchLog) : fetchLog[k].depth <= iopts.maxDepth)
  /\ <>Finished

RECURSIVE IdsOf(_)
\* the remote ids of an item and of its descendants
IdsOf(item) ==
  {item.id} \cup UNION {IdsOf(item.children[k]) : k \in 1 .. Len(item.children)}

FailedFetches == {k \in 1 .. Len(fetchLog) : fetchLog[k].id = iremote.failing}

FailedResults == {k \in 1 .. Len(iresults) : /\ iresults[k].adoId = iremote.failing
                                             /\ ~iresults[k].success}

\* C23: when the fetch of a record other than the root fails, the import
\* still completes; each failure is in the result log, the record is not
\* in the tree, and every other fetched record is, the siblings of the
\* failed one included
C23_FailedChildOmittedOnly ==
  (Finished /\ FailedFetches # {} /\ iremote.failing # 1) =>
    /\ ipc = "done"
    /\ Cardinality(FailedResults) = Cardinality(FailedFetches)
    /\ iremote.failing \notin IdsOf(tree)
    /\ \A k \in 1 .. Len(fetchLog) :
         fetchLog[k].id # iremote.failing =>
           \E j \in 1 .. Len(iresults) : /\ iresults[j].adoId = fetchLog[k].id
                                         /\ iresults[j].success
    /\ ~FilterSet => tree = FetchedSubtree(1, 0)

\* a finished import where the first child of the root failed and its next
\* sibling is in the tree
C23_Witness ==
  /\ ipc = "done"
  /\ ~FilterSet
  /\ Len(iremote.kids[1]) >= 2
  /\ iremote.kids[1][1] = iremote.failing
  /\ FailedResults # {}
  /\ tree.children # <<>>
  /\ tree.children[1].id = iremote.kids[1][2]

\* the types of the items of the imported tree
TypesOfTree == {iremote.kind[n].type : n \in IdsOf(tree)}

\* the hierarchy type of a set of types where backlog says which types
\* count as a backlog item
HierarchyOf(types, backlog) ==
  IF Epic \in types /\ Feature \in types /\ types \cap backlog # {} THEN "full"
  ELSE IF Feature \in types /\ types \cap backlog # {} THEN "medium"
  ELSE "simple"

\* C24 as stated: the hierarchy type is full with Epic, Feature and Backlog
\* Item among the types, medium with Feature and Backlog Item and no Epic,
\* simple in every other case
C24_HierarchyByBacklogItem ==
  ipc = "done" => hierarchyType = HierarchyOf(TypesOfTree, {PBI})

\* C24: the hierarchy type is full with Epic, Feature and a Backlog Item or
\* a User Story among the types, medium with Feature and a Backlog Item or
\* a User Story and no Epic, simple in every other case
C24_HierarchyByBacklogItemOrUserStory ==
  ipc = "done" => hierarchyType = HierarchyOf(TypesOfTree, {PBI, UserStory})

\* an imported tree of an Epic, a Feature and User Stories only is full
C24_Witness ==
  /\ ipc = "done"
  /\ TypesOfTree = {Epic, Feature, UserStory}
  /\ hierarchyType = "full"

\* ---------------------------------------------------------------- command

\* C25: once validation has reported an error, the push or sync command
\* has stopped: no request has been or will be sent to the service and the
\* file has not been written
C25_InvalidFileStopsCommand ==
  validation.errors # {} =>
    /\ cmdPc = "exited"
    /\ remoteCalls = 0
    /\ fileWrites = 0
    /\ backups = 0

\* a command has stopped on a file with a duplicate local id and an item
\* nested under a type that does not allow it
C25_Witness ==
  /\ cmdPc = "exited"
  /\ remoteCalls = 0
  /\ \E e \in validation.errors : e.code = "DUPLICATE_ID"
  /\ \E e \in validation.errors : e.code = "INVALID_HIERARCHY_TYPE" /\ Len(e.path) > 1

\* ------------------------------------------------------------- revisions

\* the revisions the service has returned to the engine for the record a
\* local item is linked to: in the batch of the pull and in the re-fetch
\* after a create or an update
RevisionsReturned(i) ==
  {adoMap[id].rev : id \in {id \in RemoteIds : id = flat[i].adoId /\ adoMap[id].exists}}
  \cup {refetched[j].rev : j \in {j \in Items : j = i /\ refetched[j].adoId = flat[i].adoId
                                                 /\ refetched[j].adoId # NoId}}

\* C26: the revision recorded for a local item is at every point the one
\* the Document had before the run or one the service returned for the
\* item's remote record; it is never computed locally
C26_RevisionOnlyFromService ==
  \A i \in Items : flat[i].rev = doc[i].rev \/ flat[i].rev \in RevisionsReturned(i)

\* a sync has ended with an item whose recorded revision is no longer the
\* one it had before, after another user's edit and the item's own update
C26_Witness ==
  /\ pc = "done"
  /\ \E i \in Items :
       /\ doc[i].rev # NoRev
       /\ flat[i].rev > doc[i].rev + 1
       /\ flat[i].rev = remote[flat[i].adoId].rev

\* -------------------------------------------------------------- Document

\* the items of a Document with their nesting and their fields other than
\* the remote metadata
LocalContent(d) ==
  [i \in DOMAIN d |-> [parent |-> d[i].parent, title |-> d[i].title, state |-> d[i].state]]

\* C27: no step of a push, a pull or a sync removes an item from the
\* Document, moves it or changes a field of it other than its remote
\* metadata
C27_DocumentContentKept == [][LocalContent(doc') = LocalContent(doc)]_vars

\* a sync has ended in which the pull failed for one item and another one
\* was pulled, and an item was updated by the push
C27_Witness ==
  /\ pc = "done"
  /\ \E k \in 1 .. Len(pullResults) : ~pullResults[k].success
  /\ \E k \in 1 .. Len(pullResults) : pullResults[k].success
  /\ \E k \in 1 .. Len(results) : results[k].action = "update" /\ results[k].success

\* ------------------------------------------------------------------- diff

\* the number of times tag t occurs in the array a
Occurrences(a, t) == Cardinality({k \in 1 .. Len(a) : a[k] = t})

\* a compared field has the same value on both sides: absent on both, or
\* strings equal after trimming, or tags the same up to their order
SameValue(field) ==
  LET a == dLocal[field]
      b == getAdoFieldValue(dAdo, field)
  IN IF a = Undef \/ b = Undef THEN a = b
     ELSE IF field = "tags" THEN \A t \in {TagBe, TagFe} : Occurrences(a, t) = Occurrences(b, t)
     ELSE Trim(a) = Trim(b)

Diffed == diff # NoDiff /\ dAdo.exists

\* C28: when at least one compared field differs, the diff status is
\* conflict if the local item records a revision and the remote revision is
\* greater, and modified if the two revisions are the same
C28_ConflictOnlyWhenRemoteNewer ==
  (Diffed /\ \E f \in COMPARE_FIELDS : ~SameValue(f)) =>
    /\ (dLocal.rev # NoRev /\ dAdo.rev > dLocal.rev) => diff.status = "conflict"
    /\ dAdo.rev = dLocal.rev => diff.status = "modified"

\* a diff of an item whose title differs from the record's, at the same
\* revision
C28_Witness ==
  /\ Diffed
  /\ ~SameValue("title")
  /\ dAdo.rev = dLocal.rev
  /\ diff.status = "modified"

\* C29: when every compared field has the same value on both sides, up to
\* surrounding whitespace of strings and the order of the tags, the diff
\* status is unchanged and the change list empty, whatever the revisions
C29_EqualFieldsUnchanged ==
  (Diffed /\ \A f \in COMPARE_FIELDS : SameValue(f)) =>
    /\ diff.status = "unchanged"
    /\ diff.changes = {}

\* a diff of an item and a newer record with the title padded and the tags
\* in another order
C29_Witness ==
  /\ Diffed
  /\ \A f \in COMPARE_FIELDS : SameValue(f)
  /\ dLocal.title # dAdo.title
  /\ dLocal.tags # Undef
  /\ dLocal.tags # getAdoFieldValue(dAdo, "tags")
  /\ dLocal.rev # NoRev
  /\ dAdo.rev > dLocal.rev
  /\ diff.status = "unchanged"

\* ---------------------------------------------------------------- flatten

FlatNodes == DOMAIN fParent

\* the position of node n in the flattened array
PositionsOf(n) == {k \in 1 .. Len(flattened) : flattened[k].id = n}

RECURSIVE AncestorsOf(_)
AncestorsOf(n) ==
  IF fParent[n] = NoParent THEN {} ELSE {fParent[n]} \cup AncestorsOf(fParent[n])

\* node n and the nodes below it
SubtreeOf(n) == {m \in FlatNodes : m = n \/ n \in AncestorsOf(m)}

\* C30: the flattened array holds every node of the Document exactly once;
\* the nodes of every subtree are one run that starts with the subtree's
\* root, siblings in document order (pre-order); the depth of an entry is
\* the number of ancestors of its node and its parent is the entry of the
\* node's Document parent, none for a root
C30_FlattenIsPreOrder ==
  fPc = "done" =>
    /\ Len(flattened) = Cardinality(FlatNodes)
    /\ \A n \in FlatNodes : Cardinality(PositionsOf(n)) = 1
    /\ \A k \in 1 .. Len(flattened) :
         LET n == flattened[k].id
         IN /\ UNION {PositionsOf(m) : m \in SubtreeOf(n)}
                 = k .. (k + Cardinality(SubtreeOf(n)) - 1)
            /\ flattened[k].depth = Cardinality(AncestorsOf(n))
            /\ flattened[k].parent = IF fParent[n] = NoParent THEN NoParent
                                     ELSE CHOOSE j \in PositionsOf(fParent[n]) : TRUE
    /\ \A a, b \in FlatNodes :
         (a < b /\ fParent[a] = fParent[b]) =>
           \A i \in PositionsOf(a), j \in PositionsOf(b) : i < j

\* a flattened Document with two roots, the first with a grandchild, and a
\* node that comes before a node of a smaller number
C30_Witness ==
  /\ fPc = "done"
  /\ Cardinality({n \in FlatNodes : fParent[n] = NoParent}) >= 2
  /\ \E k \in 1 .. Len(flattened) : flattened[k].depth = 2
  /\ \E k \in 1 .. Len(flattened) - 1 : flattened[k].id > flattened[k + 1].id

\* ------------------------------------------------------------------ filter

\* a whole id matches a pattern: the id can be cut into one piece for each
\* character of the pattern, any piece for a *, one character for a ?, the
\* character itself for any other one
GlobMatches(id, pattern) ==
  \E cut \in [0 .. Len(pattern) -> 0 .. Len(id)] :
    /\ cut[0] = 0
    /\ cut[Len(pattern)] = Len(id)
    /\ \A k \in 1 .. Len(pattern) :
         /\ cut[k - 1] <= cut[k]
         /\ pattern[k] # "*" =>
              /\ cut[k] = cut[k - 1] + 1
              /\ pattern[k] = "?" \/ pattern[k] = id[cut[k]]

\* the items a push has touched: a decision, a request or a result
Touched == {decided[k].item : k \in 1 .. Len(decided)}
           \cup {reqLog[k].item : k \in 1 .. Len(reqLog)}
           \cup {results[k].item : k \in 1 .. Len(results)}

\* C31: a push touches only items whose whole local id matches the filter
\* pattern, and when it has ended it has a result for every such item
C31_PushProcessesMatchingItemsOnly ==
  strategy = "none" =>
    /\ \A i \in Touched : GlobMatches(LocalIdOf(i), opts.filter)
    /\ pc = "done" =>
         \A i \in Items :
           GlobMatches(LocalIdOf(i), opts.filter) =>
             \E k \in 1 .. Len(results) : results[k].item = i

\* a push with a pattern of a letter and a ? has ended with requests for
\* the one item and none for the other
C31_Witness ==
  /\ pc = "done"
  /\ opts.filter = <<"p", "?">>
  /\ Touched = {1}
  /\ \E k \in 1 .. Len(reqLog) : reqLog[k].item = 1

\* ---------------------------------------------------------- sync conflicts

\* the decisions of the push phase that saw local field changes and a
\* remote record newer than the revision recorded in the Document
NewerRemoteDecisions ==
  {k \in 1 .. Len(decided) :
     /\ decided[k].fetched
     /\ decided[k].changed
     /\ doc[decided[k].item].rev # NoRev
     /\ decided[k].adoRev > doc[decided[k].item].rev}

NonForcing == strategy \in {"manual", "ado-wins"}

\* the item of decision k is reported as a conflict and no update request
\* was sent for it
ConflictAndNoUpdate(k) ==
  LET i == decided[k].item
  IN /\ decided[k].action = "conflict"
     /\ \E j \in 1 .. Len(results) : results[j].item = i
     /\ \A j \in 1 .. Len(results) : results[j].item = i => results[j].action = "conflict"
     /\ \A j \in 1 .. Len(reqLog) : reqLog[j].item = i => reqLog[j].op # "update"

\* C32 as stated: in a sync with a non-forcing strategy an item with local
\* changes whose remote record is newer than the revision of the Document
\* is reported as a failed conflict and gets no update request
C32_NewerRemoteIsFailedConflict ==
  NonForcing =>
    \A k \in NewerRemoteDecisions :
      /\ ConflictAndNoUpdate(k)
      /\ \A j \in 1 .. Len(results) :
           results[j].item = decided[k].item => ~results[j].success

\* C32: in a sync with a non-forcing strategy an item with local changes
\* whose remote record is newer than the revision of the Document is
\* reported as a conflict, failed unless the sync is a dry run, and gets no
\* update request
C32_NewerRemoteIsConflict ==
  NonForcing =>
    \A k \in NewerRemoteDecisions :
      /\ ConflictAndNoUpdate(k)
      /\ \A j \in 1 .. Len(results) :
           results[j].item = decided[k].item => (results[j].success <=> opts.dryRun)

\* a sync that is not a dry run has pulled the newer record of an item and
\* then reported the item as a conflict
C32_Witness ==
  /\ NonForcing
  /\ ~opts.dryRun
  /\ pc = "done"
  /\ \E k \in NewerRemoteDecisions :
       /\ \E j \in 1 .. Len(pullResults) :
            pullResults[j].item = decided[k].item /\ pullResults[j].success
       /\ adoMap[doc[decided[k].item].adoId].rev > doc[decided[k].item].rev

\* ------------------------------------------------- re-creation of linked items

\* C35: a create request is sent for an item of the Document that has a
\* remote id only when the record of that id no longer exists, so no item
\* gets a second remote record beside an existing one
C35_CreateOfLinkedOnlyWhenDeleted ==
  \A k \in 1 .. Len(reqLog) :
    (reqLog[k].op = "create" /\ doc[reqLog[k].item].adoId # NoId)
      => ~remote[doc[reqLog[k].item].adoId].exists

\* ------------------------------------------------------- the result list

\* the items of the Document that match the filter, in pre-order
MatchingInPreOrder ==
  SelectSeq(flattenHierarchy(doc), LAMBDA i : GlobMatches(LocalIdOf(i), opts.filter))

ResultItems == [k \in 1 .. Len(results) |-> results[k].item]

\* C36: the result list of a push holds one record for each item that
\* matches the filter, in pre-order: it is a prefix of that sequence
\* during the run and the whole of it when the run has returned
C36_OneResultPerMatchingItem ==
  strategy = "none" =>
    /\ Len(ResultItems) <= Len(MatchingInPreOrder)
    /\ ResultItems = SubSeq(MatchingInPreOrder, 1, Len(ResultItems))
    /\ (pc = "done" => ResultItems = MatchingInPreOrder)

\* ------------------------------------------------------------ repeated runs

\* every record of a result list reports a success (a skip is one)
AllSuccessful(rs) == \A k \in 1 .. Len(rs) : rs[k].success

\* C34: when a run of push has returned with every item successful and no
\* remote record was changed by others since, the next run of push on the
\* same Document, as long as none of its requests fails, sends no create and
\* no update request and skips every item
C34_SecondPushSkipsAll ==
  (reruns = 1 /\ AllSuccessful(prevRun.results) /\ edits = prevRun.edits
     /\ \A k \in 1 .. Len(reqLog) : reqLog[k].ok) =>
    /\ \A k \in 1 .. Len(reqLog) : reqLog[k].op \notin {"create", "update"}
    /\ \A k \in 1 .. Len(results) : results[k].action = "skip"

\* the remote id a returned run reports for item i, NoId when it reports none
ReportedId(i) ==
  IF \E k \in 1 .. Len(results) : results[k].item = i
    THEN results[CHOOSE k \in 1 .. Len(results) : results[k].item = i].workItemId
    ELSE NoId

\* C33: when a run of push, a repeated one included, has returned with every
\* item of the Document reported successful or skipped, the remote record
\* of every child item whose parent had no remote id in the Document is
\* linked to the remote record the run reports for that parent
C33_ChildrenLinkedWhenAllReported ==
  (pc = "done" /\ strategy = "none" /\ AllSuccessful(results)
     /\ \A i \in Items : ReportedId(i) # NoId) =>
    \A i \in Items :
      (doc[i].parent # 0 /\ doc[doc[i].parent].adoId = NoId)
        => remote[ReportedId(i)].parent = ReportedId(doc[i].parent)

\* ------------------------------------------------------ requests per window

\* the requests issued in the interval of one window length that starts
\* with request a
IssuedWithinWindowOf(a) ==
  {k \in 1 .. Len(issued) : issued[a] <= issued[k] /\ issued[k] < issued[a] + windowMs}

\* C37: in every interval of one window length no more requests are issued
\* than the allowance of the window
C37_AllowancePerInterval ==
  \A a \in 1 .. Len(issued) : Cardinality(IssuedWithinWindowOf(a)) <= maxRequestsPerMinute

\* ------------------------------------------------- the imported Document

RECURSIVE WorkItemOf(_)
\* the work item of the Document made of an item of the fetched tree: its
\* local id is generated from its type and its remote id
WorkItemOf(item) ==
  [id |-> generateLocalId(item.type, item.id), type |-> item.type,
   children |-> [k \in 1 .. Len(item.children) |-> WorkItemOf(item.children[k])]]

\* the document importFromAdo returns
ImportedDocument ==
  [shapeOk |-> TRUE, hierarchyType |-> hierarchyType, workItems |-> <<WorkItemOf(tree)>>]

\* C38: the Document an import returns has no local id twice, whatever the
\* remote relations are
C38_ImportedIdsUnique ==
  ipc = "done" => validateUniqueIds(ImportedDocument) = {}

\* the place of a type in the chain Epic, Feature, backlog item, Task
Level(type) ==
  CASE type = Epic -> 1
    [] type = Feature -> 2
    [] type \in {PBI, UserStory, Bug} -> 3
    [] OTHER -> 4

\* every child relation of the remote records leads one place down the chain
RespectsChain ==
  \A n \in Nodes : \A k \in 1 .. Len(iremote.kids[n]) :
    Level(iremote.kind[iremote.kids[n][k]].type) = Level(iremote.kind[n].type) + 1

\* C39: the Document imported from remote records that respect the nesting
\* chain passes the hierarchy check of the validator
C39_ImportedHierarchyValid ==
  (ipc = "done" /\ RespectsChain) => validateHierarchyTypes(ImportedDocument) = {}

SuccessfulEntries == {k \in 1 .. Len(iresults) : iresults[k].success}

\* C40: after an import every item of the returned tree has exactly one
\* successful entry in the result log, and every successful entry is the
\* entry of an item of the tree
C40_EntriesMatchTree ==
  ipc = "done" =>
    /\ \A n \in IdsOf(tree) :
         Cardinality({k \in SuccessfulEntries : iresults[k].adoId = n}) = 1
    /\ \A k \in SuccessfulEntries : iresults[k].adoId \in IdsOf(tree)

====
